---- MODULE Spec2Model ----
(***************************************************************************)
(* Mockzure: the in-memory store, the service-account authentication and   *)
(* permission check, and the OIDC/OAuth2 endpoints (app registration,      *)
(* authorize, token, data clear/reset) of main.go.                         *)
(*                                                                         *)
(* Go strings are TLA+ strings; an absent JSON member or header is the     *)
(* empty sequence where a value would be a one-element sequence.           *)
(***************************************************************************)
EXTENDS Integers, Sequences, FiniteSets, TLC

VARIABLES
    vms,              \* Store.vms
    users,            \* Store.users
    serviceAccounts,  \* Store.serviceAccounts
    config,           \* Store.config.ServiceAccounts
    clients,          \* Store.clients : client_id -> RegisteredClient
    codes,            \* Store.codes   : code -> AuthCode
    req,              \* the last request served
    resp,             \* the response written to it
    redeemed,         \* history: codes a token request has redeemed so far
    pending,          \* history: <<code, user_id>> of the redirects not yet redeemed
    pc,               \* concurrent token requests: position of each request
    treq,             \* concurrent token requests: the code each presents
    tac,              \* concurrent token requests: the `ac` local of each
    tresp,            \* concurrent token requests: response of each
    crashed,          \* the Go runtime aborted on a concurrent map access
    call,             \* arguments of the function under evaluation
    ret               \* its return value

vars == <<vms, users, serviceAccounts, config, clients, codes, req, resp, redeemed, pending,
          pc, treq, tac, tresp, crashed, call, ret>>

storeVars == <<vms, users, serviceAccounts, config, clients, codes>>
threadVars == <<pc, treq, tac, tresp, crashed>>
callVars == <<call, ret>>
histVars == <<redeemed, pending>>

(***************************************************************************)
(* Bounds                                                                  *)
(***************************************************************************)
MaxClock == 2       \* clock readings 1..MaxClock seen by authorize requests
MaxThreads == 2     \* token requests in flight at once
MaxPerms == 2       \* permission entries of a service account
MaxAccounts == 2    \* service accounts in a configuration file
MaxVMs == 2         \* VMs in the store
MaxSegments == 2    \* segments of a pattern or path given to MatchPath
MaxDocuments == 2   \* documents in the registry
MaxUsers == 2       \* users in the configuration file

Clock == 1..MaxClock
Threads == 1..MaxThreads

(***************************************************************************)
(* Strings                                                                 *)
(***************************************************************************)
HasPrefix(s, p) == Len(s) >= Len(p) /\ SubSeq(s, 1, Len(p)) = p

TrimPrefix(s, p) == IF HasPrefix(s, p) THEN SubSeq(s, Len(p) + 1, Len(s)) ELSE s

\* index of the first occurrence of the one-character string ch in s, or 0
RECURSIVE IndexFrom(_, _, _)
IndexFrom(s, ch, i) ==
    IF i > Len(s) THEN 0
    ELSE IF SubSeq(s, i, i) = ch THEN i
    ELSE IndexFrom(s, ch, i + 1)

Index(s, ch) == IndexFrom(s, ch, 1)

\* strings.SplitN(s, sep, 2) for a one-character sep
SplitN2(s, sep) ==
    LET i == Index(s, sep) IN
    IF i = 0 THEN <<s>>
    ELSE <<SubSeq(s, 1, i - 1), SubSeq(s, i + 1, Len(s))>>

\* strings.Fields(s): the maximal runs of non-space characters of s
RECURSIVE FieldsFrom(_, _, _)
FieldsFrom(s, i, cur) ==
    IF i > Len(s) THEN (IF cur = "" THEN <<>> ELSE <<cur>>)
    ELSE IF SubSeq(s, i, i) = " "
         THEN (IF cur = "" THEN <<>> ELSE <<cur>>) \o FieldsFrom(s, i + 1, "")
         ELSE FieldsFrom(s, i + 1, cur \o SubSeq(s, i, i))

Fields(s) == FieldsFrom(s, 1, "")

\* strings.Join(elems, " ")
RECURSIVE JoinSpace(_)
JoinSpace(elems) ==
    IF Len(elems) = 0 THEN ""
    ELSE IF Len(elems) = 1 THEN elems[1]
    ELSE elems[1] \o " " \o JoinSpace(Tail(elems))

(***************************************************************************)
(* The configuration file read by loadConfig                               *)
(***************************************************************************)
ConfigUsers ==
    << [ID |-> "u1", DisplayName |-> "Ann Lee Wu", UserPrincipalName |-> "ann@dev.local",
        Mail |-> "ann.mail@dev.local"],
       [ID |-> "u2", DisplayName |-> "Bob", UserPrincipalName |-> "bob@dev.local",
        Mail |-> "bob.mail@dev.local"] >>

ConfigVMs ==
    << [Name |-> "vm-1", ResourceGroup |-> "rg-dev", Status |-> "running",
        PowerState |-> "VM running"],
       [Name |-> "vm-2", ResourceGroup |-> "rg-other", Status |-> "stopped",
        PowerState |-> "VM deallocated"] >>

ConfigServiceAccounts ==
    << [ApplicationID |-> "sp1", Secret |-> "s1", AccountEnabled |-> TRUE,
        Permissions |-> << [ResourceGroup |-> "rg-dev",
                            Permissions |-> <<"read", "start">>] >>],
       [ApplicationID |-> "sp2", Secret |-> "", AccountEnabled |-> FALSE,
        Permissions |-> <<>>] >>

\* loadConfig: the store service account (without secret) of a config entry
StoreServiceAccount(csa) ==
    [ApplicationID |-> csa.ApplicationID,
     AccountEnabled |-> (csa.AccountEnabled \/ TRUE),
     Permissions |-> csa.Permissions]

\* loadConfig: the secret record of a config entry
StoreSecret(csa) == [ApplicationID |-> csa.ApplicationID, Secret |-> csa.Secret]

LoadServiceAccounts(fc) == [i \in 1..Len(fc) |-> StoreServiceAccount(fc[i])]

LoadSecrets(fc) == [i \in 1..Len(fc) |-> StoreSecret(fc[i])]

(***************************************************************************)
(* Responses                                                               *)
(***************************************************************************)
Response(op, status, body) ==
    [op |-> op, status |-> status, body |-> body, location |-> <<>>, token |-> <<>>]

NoResponse == Response("", 0, "")

NoRequest == [op |-> ""]

(***************************************************************************)
(* Request parameters offered to the endpoints                             *)
(***************************************************************************)
ClientIDs == {"", "app1"}
ApplicationIDs == {"", "sp1", "sp2"}
RedirectURIs == {"", "https://a/cb", ":bad"}
ResponseTypes == {"code", "token"}
Scopes == {"openid"}
States == {"", "xyz"}
UserIDs == {"", "u1", "u2"}
Secrets == {"", "s1", "s2"}
GrantTypes == {"", "authorization_code", "client_credentials", "password"}
Methods == {"GET", "POST"}

\* fmt.Sprintf("code_%d", time.Now().UnixNano())
CodeAt(now) == "code_" \o ToString(now)

IssuableCodes == {CodeAt(now) : now \in Clock}

PresentedCodes == IssuableCodes \cup {"", "code_0"}

\* url.Parse(redirectURI) succeeds
ParsesAsURL(redirectURI) == redirectURI # ":bad"

(***************************************************************************)
(* Go maps                                                                 *)
(***************************************************************************)
MapPut(m, k, v) == [x \in (DOMAIN m) \cup {k} |-> IF x = k THEN v ELSE m[x]]

MapDelete(m, k) == [x \in (DOMAIN m) \ {k} |-> m[x]]

EmptyMap == <<>>

(***************************************************************************)
(* Store.init and loadConfig                                               *)
(***************************************************************************)
StoreInit ==
    /\ vms = ConfigVMs
    /\ users = ConfigUsers
    /\ serviceAccounts = LoadServiceAccounts(ConfigServiceAccounts)
    /\ config = LoadSecrets(ConfigServiceAccounts)
    /\ clients = EmptyMap
    /\ codes = EmptyMap

ThreadsIdle ==
    /\ pc = [t \in Threads |-> "idle"]
    /\ treq = [t \in Threads |-> ""]
    /\ tac = [t \in Threads |-> <<>>]
    /\ tresp = [t \in Threads |-> NoResponse]
    /\ crashed = FALSE

NoCall ==
    /\ call = [fn |-> ""]
    /\ ret = <<>>

Init ==
    /\ StoreInit
    /\ req = NoRequest
    /\ resp = NoResponse
    /\ redeemed = {}
    /\ pending = {}
    /\ ThreadsIdle
    /\ NoCall

(***************************************************************************)
(* /mock/azure/apps: app registration                                      *)
(***************************************************************************)
DefaultScopes == <<"openid", "profile", "email">>

RegisteredClient(clientID, redirectURIs) ==
    [ClientID |-> clientID, RedirectURIs |-> redirectURIs, Scopes |-> DefaultScopes]

RegistrationPayloads ==
    {RegisteredClient(id, rs) :
        id \in {"", "app1"}, rs \in {<<>>, <<"https://a/cb">>}}

\* POST with a JSON payload c (no scopes given); an empty client_id is rejected
AppsPost(c) ==
    /\ IF c.ClientID = ""
       THEN /\ resp' = Response("apps", 400, "invalid client payload")
            /\ UNCHANGED clients
       ELSE /\ clients' = MapPut(clients, c.ClientID, c)
            /\ resp' = Response("apps", 201, "client")
    /\ UNCHANGED <<vms, users, serviceAccounts, config, codes>>
    /\ UNCHANGED threadVars
    /\ UNCHANGED callVars

\* GET lists the clients; any other method than GET and POST is refused
AppsOther(method) ==
    /\ method # "POST"
    /\ resp' = IF method = "GET" THEN Response("apps", 200, "client list")
               ELSE Response("apps", 405, "Method not allowed")
    /\ UNCHANGED storeVars
    /\ UNCHANGED threadVars
    /\ UNCHANGED callVars

(***************************************************************************)
(* /oauth2/v2.0/authorize                                                  *)
(***************************************************************************)
\* variant: `valid` starts out true instead of len(c.RedirectURIs) == 0
RedirectValidUnchecked(c, redirectURI) ==
    \/ TRUE
    \/ \E i \in 1..Len(c.RedirectURIs) : c.RedirectURIs[i] = redirectURI

\* the redirect validation against a registered client's list
RedirectValid(c, redirectURI) ==
    \/ Len(c.RedirectURIs) = 0
    \/ \E i \in 1..Len(c.RedirectURIs) : c.RedirectURIs[i] = redirectURI

AuthCode(code, clientID, redirectURI, scope, userSub) ==
    [Code |-> code, ClientID |-> clientID, RedirectURI |-> redirectURI,
     Scope |-> scope, UserSub |-> userSub]

\* store.codes[code] = &AuthCode{...}
StoreCode(table, ac) == MapPut(table, ac.Code, ac)

\* the 302 answer: redirect_uri with code (and state, if given) in its query
Redirect(redirectURI, code, state) ==
    [op |-> "authorize", status |-> 302, body |-> "", token |-> <<>>,
     location |-> <<[target |-> redirectURI, code |-> code,
                     state |-> IF state # "" THEN <<state>> ELSE <<>>]>>]

\* variant: the presence of redirect_uri is not checked
AuthorizeRejectedNoRedirect(clientID, redirectURI, responseType) ==
    clientID = "" \/ responseType # "code"

AuthorizeRejected(clientID, redirectURI, responseType) ==
    clientID = "" \/ redirectURI = "" \/ responseType # "code"

AuthorizeUnauthorized(clientID, redirectURI) ==
    /\ clientID \in DOMAIN clients
    /\ ~RedirectValid(clients[clientID], redirectURI)

\* the whole handler, `now` being the reading of time.Now().UnixNano()
Authorize(clientID, redirectURI, state, responseType, scope, selectedUser, now) ==
    /\ IF AuthorizeRejected(clientID, redirectURI, responseType)
       THEN /\ resp' = Response("authorize", 400, "invalid authorize request")
            /\ UNCHANGED codes
       ELSE IF AuthorizeUnauthorized(clientID, redirectURI)
       THEN /\ resp' = Response("authorize", 400, "unauthorized redirect_uri")
            /\ UNCHANGED codes
       ELSE IF selectedUser = ""
       THEN /\ resp' = Response("authorize", 200, "user selection page")
            /\ UNCHANGED codes
       ELSE /\ codes' = StoreCode(codes,
                           AuthCode(CodeAt(now), clientID, redirectURI, scope, selectedUser))
            /\ resp' = IF ParsesAsURL(redirectURI)
                       THEN Redirect(redirectURI, CodeAt(now), state)
                       ELSE Response("authorize", 400, "invalid redirect_uri")
    /\ UNCHANGED <<vms, users, serviceAccounts, config, clients>>
    /\ UNCHANGED threadVars
    /\ UNCHANGED callVars

\* requests refused before the user selection is read (whatever the rest holds)
AuthorizeEarly(clientID, redirectURI, responseType) ==
    /\ \/ AuthorizeRejected(clientID, redirectURI, responseType)
       \/ AuthorizeUnauthorized(clientID, redirectURI)
    /\ Authorize(clientID, redirectURI, "", responseType, "openid", "", 1)

\* requests with response_type=code that pass both checks
AuthorizeValid(clientID, redirectURI, state, scope, selectedUser, now) ==
    /\ ~AuthorizeRejected(clientID, redirectURI, "code")
    /\ ~AuthorizeUnauthorized(clientID, redirectURI)
    /\ Authorize(clientID, redirectURI, state, "code", scope, selectedUser, now)

(***************************************************************************)
(* /oauth2/v2.0/token                                                      *)
(***************************************************************************)
Issuer == "http://mockzure"

\* variant: the secret is not compared
ClientAuthenticatedByID(secrets, clientID, clientSecret) ==
    \E i \in 1..Len(secrets) : secrets[i].ApplicationID = clientID

\* the client_credentials check against the secret records
ClientAuthenticated(secrets, clientID, clientSecret) ==
    \E i \in 1..Len(secrets) :
        secrets[i].ApplicationID = clientID /\ secrets[i].Secret = clientSecret

ClientCredentialsToken(clientID, scope) ==
    [access_token |-> "mock_access_token_" \o clientID, token_type |-> "Bearer",
     expires_in |-> 3600, scope |-> scope, refresh_token |-> <<>>, id_token |-> <<>>]

\* index of the first user whose ID is sub, or 0
RECURSIVE FindUser(_, _, _)
FindUser(us, sub, i) ==
    IF i > Len(us) THEN 0
    ELSE IF us[i].ID = sub THEN i
    ELSE FindUser(us, sub, i + 1)

\* email, name, given_name and family_name looked up for the code's subject
ProfileClaims(us, sub) ==
    LET i == FindUser(us, sub, 1) IN
    IF i = 0
    THEN [email |-> "unknown@dev.local", name |-> "Unknown User",
          given_name |-> "Unknown", family_name |-> "User"]
    ELSE LET nameParts == Fields(us[i].DisplayName) IN
         [email |-> us[i].UserPrincipalName,
          name |-> us[i].DisplayName,
          given_name |-> IF Len(nameParts) > 0 THEN nameParts[1] ELSE "Unknown",
          family_name |-> IF Len(nameParts) > 1 THEN JoinSpace(Tail(nameParts)) ELSE "User"]

\* the claims of the id_token (iat and exp, two clock readings, are left out)
IDClaims(us, ac) ==
    LET p == ProfileClaims(us, ac.UserSub) IN
    [iss |-> Issuer, aud |-> ac.ClientID, sub |-> ac.UserSub, email |-> p.email,
     name |-> p.name, given_name |-> p.given_name, family_name |-> p.family_name]

\* header.payload. with an empty signature segment
makeUnsignedJWT(claims) ==
    [header |-> [alg |-> "none", typ |-> "JWT"], payload |-> claims, signature |-> ""]

CodeToken(us, code, ac) ==
    [access_token |-> "mock_access_token_" \o code, token_type |-> "Bearer",
     expires_in |-> 3600, scope |-> ac.Scope,
     refresh_token |-> <<"mock_refresh_token_" \o code>>,
     id_token |-> <<makeUnsignedJWT(IDClaims(us, ac))>>]

TokenResponse(tok) ==
    [op |-> "token", status |-> 200, body |-> "", location |-> <<>>, token |-> <<tok>>]

\* delete(store.codes, code)
DeleteCode(table, code) == MapDelete(table, code)

\* lookup, removal and token assembly, shared by the form and the JSON path
RedeemCode(code) ==
    IF code \in DOMAIN codes
    THEN /\ codes' = DeleteCode(codes, code)
         /\ resp' = TokenResponse(CodeToken(users, code, codes[code]))
    ELSE /\ resp' = Response("token", 400, "invalid code")
         /\ UNCHANGED codes

TokenFrame ==
    /\ UNCHANGED <<vms, users, serviceAccounts, config, clients>>
    /\ UNCHANGED threadVars
    /\ UNCHANGED callVars

\* a method other than POST
TokenNotPost(method) ==
    /\ method # "POST"
    /\ resp' = Response("token", 405, "Method not allowed")
    /\ UNCHANGED codes
    /\ TokenFrame

\* POST, form-encoded, the body does not parse
TokenBadForm ==
    /\ resp' = Response("token", 400, "bad form")
    /\ UNCHANGED codes
    /\ TokenFrame

\* POST, form-encoded, grant_type=client_credentials
TokenClientCredentials(clientID, clientSecret, scope) ==
    /\ IF ClientAuthenticated(config, clientID, clientSecret)
       THEN resp' = TokenResponse(ClientCredentialsToken(clientID, scope))
       ELSE resp' = Response("token", 401, "invalid_client")
    /\ UNCHANGED codes
    /\ TokenFrame

\* POST, form-encoded, any other grant_type: the authorization code flow
TokenFormCode(grantType, code) ==
    /\ grantType # "client_credentials"
    /\ IF code = ""
       THEN /\ resp' = Response("token", 400, "code or grant_type required")
            /\ UNCHANGED codes
       ELSE RedeemCode(code)
    /\ TokenFrame

\* POST, any other content type: a JSON body {code}; decodes = it parses
TokenJSON(decodes, code) ==
    /\ IF ~decodes \/ code = ""
       THEN /\ resp' = Response("token", 400, "Authorization code required")
            /\ UNCHANGED codes
       ELSE RedeemCode(code)
    /\ TokenFrame

(***************************************************************************)
(* /mock/azure/data/clear and /mock/azure/data/reset                       *)
(***************************************************************************)
DataFrame ==
    /\ UNCHANGED threadVars
    /\ UNCHANGED callVars

DataClear(method) ==
    /\ IF method # "POST"
       THEN /\ resp' = Response("clear", 405, "Method not allowed")
            /\ UNCHANGED <<vms, users>>
       ELSE /\ vms' = <<>>
            /\ users' = <<>>
            /\ resp' = Response("clear", 200, "Mock data cleared successfully")
    /\ UNCHANGED <<serviceAccounts, config, clients, codes>>
    /\ DataFrame

\* store.vms = nil; store.users = nil; store.init()
DataReset(method) ==
    /\ IF method # "POST"
       THEN /\ resp' = Response("reset", 405, "Method not allowed")
            /\ UNCHANGED storeVars
       ELSE /\ vms' = ConfigVMs
            /\ users' = ConfigUsers
            /\ serviceAccounts' = LoadServiceAccounts(ConfigServiceAccounts)
            /\ config' = LoadSecrets(ConfigServiceAccounts)
            /\ clients' = EmptyMap
            /\ codes' = EmptyMap
            /\ resp' = Response("reset", 200, "Mock data reset to defaults successfully")
    /\ DataFrame

(***************************************************************************)
(* The requests, as recorded beside their responses                        *)
(***************************************************************************)
AppsRequest(method, c) == [op |-> "apps", method |-> method, payload |-> c]

AuthorizeRequest(clientID, redirectURI, state, responseType, scope, selectedUser) ==
    [op |-> "authorize", client_id |-> clientID, redirect_uri |-> redirectURI,
     state |-> state, response_type |-> responseType, scope |-> scope,
     user_id |-> selectedUser]

FormType == "application/x-www-form-urlencoded"
JSONType == "application/json"

\* parses: the body decodes; a field the request does not carry is ""
TokenRequest(method, contentType, parses, grantType, code, clientID, clientSecret) ==
    [op |-> "token", method |-> method, content_type |-> contentType, parses |-> parses,
     grant_type |-> grantType, code |-> code, client_id |-> clientID,
     client_secret |-> clientSecret]

DataRequest(op, method) == [op |-> op, method |-> method]

(***************************************************************************)
(* History of issued and redeemed codes, read off the responses            *)
(***************************************************************************)
\* the response hands out the tokens of an authorization code
IsCodeGrant(r) ==
    /\ r.op = "token"
    /\ r.status = 200
    /\ Len(r.token) = 1
    /\ Len(r.token[1].refresh_token) = 1

GrantedCode(r) == TrimPrefix(r.token[1].access_token, "mock_access_token_")

IsRedirect(r) == r.op = "authorize" /\ r.status = 302

\* what the step just taken adds to the history
History ==
    /\ redeemed' = IF IsCodeGrant(resp') THEN redeemed \cup {GrantedCode(resp')}
                   ELSE redeemed
    /\ pending' =
         IF IsRedirect(resp')
         THEN pending \cup {<<resp'.location[1].code,
                              codes'[resp'.location[1].code].UserSub>>}
         ELSE IF IsCodeGrant(resp')
         THEN {p \in pending : p[1] # GrantedCode(resp')}
         ELSE IF resp'.op = "reset" /\ resp'.status = 200
         THEN {}
         ELSE pending
    /\ req' = NoRequest

\* the request is recorded, the history is not
Record(r) ==
    /\ req' = r
    /\ UNCHANGED histVars

(***************************************************************************)
(* Requests served one at a time                                           *)
(***************************************************************************)
Next ==
    \/ \E c \in RegistrationPayloads : AppsPost(c) /\ Record(AppsRequest("POST", c))
    \/ \E method \in {"GET", "PUT"} :
           AppsOther(method) /\ Record(AppsRequest(method, RegisteredClient("", <<>>)))
    \/ \E clientID \in ClientIDs, redirectURI \in RedirectURIs, responseType \in ResponseTypes :
           /\ AuthorizeEarly(clientID, redirectURI, responseType)
           /\ Record(AuthorizeRequest(clientID, redirectURI, "", responseType, "openid", ""))
    \/ \E clientID \in ClientIDs, redirectURI \in RedirectURIs, state \in States,
          scope \in Scopes, selectedUser \in UserIDs, now \in Clock :
           /\ AuthorizeValid(clientID, redirectURI, state, scope, selectedUser, now)
           /\ Record(AuthorizeRequest(clientID, redirectURI, state, "code", scope,
                                      selectedUser))
    \/ \E method \in {"GET"} :
           TokenNotPost(method) /\ Record(TokenRequest(method, "", FALSE, "", "", "", ""))
    \/ TokenBadForm /\ Record(TokenRequest("POST", FormType, FALSE, "", "", "", ""))
    \/ \E clientID \in ApplicationIDs, clientSecret \in Secrets, scope \in Scopes :
           /\ TokenClientCredentials(clientID, clientSecret, scope)
           /\ Record(TokenRequest("POST", FormType, TRUE, "client_credentials", "",
                                  clientID, clientSecret))
    \/ \E grantType \in GrantTypes, code \in PresentedCodes :
           /\ TokenFormCode(grantType, code)
           /\ Record(TokenRequest("POST", FormType, TRUE, grantType, code, "", ""))
    \/ \E decodes \in BOOLEAN, code \in PresentedCodes :
           /\ TokenJSON(decodes, code)
           /\ Record(TokenRequest("POST", JSONType, decodes, "", code, "", ""))
    \/ \E method \in Methods : DataClear(method) /\ Record(DataRequest("clear", method))
    \/ \E method \in Methods : DataReset(method) /\ Record(DataRequest("reset", method))

Spec == Init /\ [][Next]_vars

\* the requests that touch the code table, with the history of codes recorded
NextHist ==
    \/ \E c \in RegistrationPayloads : AppsPost(c) /\ History
    \/ \E clientID \in ClientIDs, redirectURI \in RedirectURIs, state \in States,
          scope \in Scopes, selectedUser \in UserIDs, now \in Clock :
           AuthorizeValid(clientID, redirectURI, state, scope, selectedUser, now) /\ History
    \/ \E grantType \in GrantTypes, code \in PresentedCodes :
           TokenFormCode(grantType, code) /\ History
    \/ \E decodes \in BOOLEAN, code \in PresentedCodes : TokenJSON(decodes, code) /\ History
    \/ \E method \in Methods : DataClear(method) /\ History
    \/ \E method \in Methods : DataReset(method) /\ History

SpecHist == Init /\ [][NextHist]_vars

(***************************************************************************)
(* Token requests served concurrently.  The handler takes no lock: the     *)
(* lookup store.codes[code], the delete and the token assembly of one      *)
(* request interleave with those of the others.  Two goroutines inside     *)
(* map accesses, one of them writing, are a data race; the runtime may     *)
(* abort the process ("concurrent map read and map write").                *)
(***************************************************************************)
ConcFrame ==
    /\ UNCHANGED <<vms, users, serviceAccounts, config, clients, req, resp>>
    /\ UNCHANGED callVars

\* a POST arrives presenting `code` (form-encoded or JSON, code not empty)
TokenBegin(t, code) ==
    /\ ~crashed
    /\ pc[t] = "idle"
    /\ code # ""
    /\ pc' = [pc EXCEPT ![t] = "lookup"]
    /\ treq' = [treq EXCEPT ![t] = code]
    /\ UNCHANGED <<codes, tac, tresp, crashed, histVars>>
    /\ ConcFrame

\* ac, ok := store.codes[code]; if !ok { 400 "invalid code" }
TokenLookup(t) ==
    /\ ~crashed
    /\ pc[t] = "lookup"
    /\ IF treq[t] \in DOMAIN codes
       THEN /\ tac' = [tac EXCEPT ![t] = <<codes[treq[t]]>>]
            /\ pc' = [pc EXCEPT ![t] = "delete"]
            /\ UNCHANGED tresp
       ELSE /\ tresp' = [tresp EXCEPT ![t] = Response("token", 400, "invalid code")]
            /\ pc' = [pc EXCEPT ![t] = "done"]
            /\ UNCHANGED tac
    /\ UNCHANGED <<codes, treq, crashed, histVars>>
    /\ ConcFrame

\* delete(store.codes, code)
TokenDelete(t) ==
    /\ ~crashed
    /\ pc[t] = "delete"
    /\ codes' = DeleteCode(codes, treq[t])
    /\ pc' = [pc EXCEPT ![t] = "respond"]
    /\ UNCHANGED <<treq, tac, tresp, crashed, histVars>>
    /\ ConcFrame

\* the id_token is built from the local ac and the tokens are written
TokenRespond(t) ==
    /\ ~crashed
    /\ pc[t] = "respond"
    /\ tresp' = [tresp EXCEPT ![t] = TokenResponse(CodeToken(users, treq[t], tac[t][1]))]
    /\ pc' = [pc EXCEPT ![t] = "done"]
    /\ redeemed' = redeemed \cup {treq[t]}
    /\ UNCHANGED <<codes, treq, tac, crashed, pending>>
    /\ ConcFrame

\* the runtime detects a map write racing with another map access
RaceAbort(t, u) ==
    /\ ~crashed
    /\ t # u
    /\ pc[t] = "delete"
    /\ pc[u] \in {"lookup", "delete"}
    /\ crashed' = TRUE
    /\ UNCHANGED <<codes, pc, treq, tac, tresp, histVars>>
    /\ ConcFrame

\* an authorize request completes with a code string never handed out before
AuthorizeFresh(redirectURI, selectedUser, now) ==
    /\ ~crashed
    /\ selectedUser # ""
    /\ CodeAt(now) \notin DOMAIN codes
    /\ CodeAt(now) \notin redeemed
    /\ \A t \in Threads : treq[t] # CodeAt(now)
    /\ AuthorizeValid("app1", redirectURI, "", "openid", selectedUser, now)
    /\ UNCHANGED <<req, histVars>>

NextConc ==
    \/ \E redirectURI \in {"https://a/cb"}, selectedUser \in UserIDs, now \in Clock :
           AuthorizeFresh(redirectURI, selectedUser, now)
    \/ \E t \in Threads, code \in PresentedCodes : TokenBegin(t, code)
    \/ \E t \in Threads : TokenLookup(t)
    \/ \E t \in Threads : TokenDelete(t)
    \/ \E t \in Threads : TokenRespond(t)
    \/ \E t \in Threads, u \in Threads : RaceAbort(t, u)

SpecConc == Init /\ [][NextConc]_vars

(***************************************************************************)
(* authenticateServiceAccount and hasPermission                            *)
(***************************************************************************)
\* base64.StdEncoding: the text of a byte string is written b64(...); a text
\* of any other shape does not decode
B64Encode(bytes) == "b64(" \o bytes \o ")"

B64Decodes(text) ==
    /\ HasPrefix(text, "b64(")
    /\ SubSeq(text, Len(text), Len(text)) = ")"

B64Decode(text) == SubSeq(text, 5, Len(text) - 1)

\* for _, sa := range s.serviceAccounts { if sa.ApplicationID == id && sa.AccountEnabled }
FindServiceAccount(sas, id) ==
    LET Hits == {i \in 1..Len(sas) : sas[i].ApplicationID = id /\ sas[i].AccountEnabled}
    IN IF Hits = {} THEN <<>>
       ELSE <<CHOOSE i \in Hits : \A j \in Hits : i <= j>>

\* the secret of the first record for appID, "" when there is none
ValidSecret(secrets, appID) ==
    LET Hits == {i \in 1..Len(secrets) : secrets[i].ApplicationID = appID}
    IN IF Hits = {} THEN ""
       ELSE secrets[CHOOSE i \in Hits : \A j \in Hits : i <= j].Secret

BasicAuth(sas, secrets, encoded) ==
    IF ~B64Decodes(encoded) THEN <<>>
    ELSE LET parts == SplitN2(B64Decode(encoded), ":") IN
         IF Len(parts) # 2 THEN <<>>
         ELSE LET validSecret == ValidSecret(secrets, parts[1]) IN
              IF validSecret = "" \/ validSecret # parts[2] THEN <<>>
              ELSE FindServiceAccount(sas, parts[1])

BearerAuth(sas, token) ==
    IF HasPrefix(token, "mock_access_token_")
    THEN FindServiceAccount(sas, TrimPrefix(token, "mock_access_token_"))
    ELSE <<>>

\* <<i>> when serviceAccounts[i] is returned, <<>> when an error is
authenticateServiceAccount(sas, secrets, auth) ==
    IF auth = "" THEN <<>>
    ELSE IF HasPrefix(auth, "Bearer ") THEN BearerAuth(sas, TrimPrefix(auth, "Bearer "))
    ELSE IF HasPrefix(auth, "Basic ") THEN BasicAuth(sas, secrets, TrimPrefix(auth, "Basic "))
    ELSE <<>>

\* the inner loop: for _, p := range perm.Permissions
RECURSIVE GrantsFrom(_, _, _)
GrantsFrom(ps, permission, j) ==
    IF j > Len(ps) THEN FALSE
    ELSE IF ps[j] = permission \/ ps[j] = "*" THEN TRUE
    ELSE GrantsFrom(ps, permission, j + 1)

\* the outer loop: for _, perm := range sa.Permissions
RECURSIVE PermissionFrom(_, _, _, _)
PermissionFrom(perms, resourceGroup, permission, i) ==
    IF i > Len(perms) THEN FALSE
    ELSE IF perms[i].ResourceGroup # "*" /\ perms[i].ResourceGroup # resourceGroup
         THEN PermissionFrom(perms, resourceGroup, permission, i + 1)
    ELSE IF GrantsFrom(perms[i].Permissions, permission, 1) THEN TRUE
    ELSE PermissionFrom(perms, resourceGroup, permission, i + 1)

\* a single pass that decides on the first entry for the resource group
hasPermissionFirstEntry(sa, resourceGroup, permission) ==
    LET Hits == {i \in 1..Len(sa.Permissions) :
                    \/ sa.Permissions[i].ResourceGroup = "*"
                    \/ sa.Permissions[i].ResourceGroup = resourceGroup}
    IN IF Hits = {} THEN FALSE
       ELSE GrantsFrom(sa.Permissions[CHOOSE i \in Hits : \A j \in Hits : i <= j].Permissions,
                       permission, 1)

hasPermission(sa, resourceGroup, permission) ==
    PermissionFrom(sa.Permissions, resourceGroup, permission, 1)

\* sequences over S of length at most n
SeqUpTo(S, n) == UNION {[1..k -> S] : k \in 0..n}

(***************************************************************************)
(* hasPermission applied to bounded permission lists                       *)
(***************************************************************************)
VerbLists == {<<>>, <<"read">>, <<"*">>, <<"read", "start">>, <<"start", "*">>}

PermissionEntries ==
    [ResourceGroup : {"rg-dev", "rg-other", "*"}, Permissions : VerbLists]

QueriedGroups == {"rg-dev", "rg-other"}
QueriedVerbs == {"read", "start", "delete"}

InitPerm ==
    /\ vms = ConfigVMs
    /\ users = ConfigUsers
    /\ \E perms \in SeqUpTo(PermissionEntries, MaxPerms) :
           serviceAccounts = <<[ApplicationID |-> "sp1", AccountEnabled |-> TRUE,
                                Permissions |-> perms]>>
    /\ config = <<[ApplicationID |-> "sp1", Secret |-> "s1"]>>
    /\ clients = EmptyMap
    /\ codes = EmptyMap
    /\ req = NoRequest
    /\ resp = NoResponse
    /\ redeemed = {}
    /\ pending = {}
    /\ ThreadsIdle
    /\ NoCall

CallFrame ==
    /\ UNCHANGED storeVars
    /\ UNCHANGED <<req, resp>>
    /\ UNCHANGED histVars
    /\ UNCHANGED threadVars

CheckPermission(i, resourceGroup, permission) ==
    /\ call' = [fn |-> "hasPermission", sa |-> i, resourceGroup |-> resourceGroup,
                permission |-> permission]
    /\ ret' = <<hasPermission(serviceAccounts[i], resourceGroup, permission)>>
    /\ CallFrame

NextPerm ==
    \E i \in 1..Len(serviceAccounts), resourceGroup \in QueriedGroups,
       permission \in QueriedVerbs :
        CheckPermission(i, resourceGroup, permission)

SpecPerm == InitPerm /\ [][NextPerm]_vars

(***************************************************************************)
(* authenticateServiceAccount applied to bounded configurations            *)
(***************************************************************************)
\* configuration entries; one entry per applicationId
ConfigEntries ==
    [ApplicationID : {"sp1", "sp2"}, Secret : {"", "s1", "s:2"},
     AccountEnabled : BOOLEAN, Permissions : {<<>>}]

ConfigFiles ==
    {fc \in SeqUpTo(ConfigEntries, MaxAccounts) :
        \A i \in 1..Len(fc), j \in 1..Len(fc) :
            i # j => fc[i].ApplicationID # fc[j].ApplicationID}

BasicHeaders ==
    {"Basic " \o B64Encode(id \o ":" \o secret) :
        id \in {"sp1", "sp2", "sp9"}, secret \in {"", "s1", "s:2", "s2"}}

BearerHeaders ==
    {"Bearer mock_access_token_" \o id : id \in {"sp1", "sp2", "sp9", ""}}

OtherHeaders ==
    {"", "Basic", "Basic invalid-base64", "Basic " \o B64Encode("sp1"),
     "Bearer token", "Bearer sp1", "bearer mock_access_token_sp1",
     "Bearer  mock_access_token_sp1", "Digest sp1:s1", "sp1:s1"}

AuthHeaders == BasicHeaders \cup BearerHeaders \cup OtherHeaders

InitAuth ==
    /\ vms = ConfigVMs
    /\ users = ConfigUsers
    /\ \E fc \in ConfigFiles :
           /\ serviceAccounts = LoadServiceAccounts(fc)
           /\ config = LoadSecrets(fc)
           /\ call = [fn |-> "loadConfig", file |-> fc]
    /\ clients = EmptyMap
    /\ codes = EmptyMap
    /\ req = NoRequest
    /\ resp = NoResponse
    /\ redeemed = {}
    /\ pending = {}
    /\ ThreadsIdle
    /\ ret = <<>>

\* the configuration the store was loaded from is kept beside the call
Authenticate(auth) ==
    /\ call' = [fn |-> "authenticateServiceAccount", file |-> call.file, auth |-> auth]
    /\ ret' = authenticateServiceAccount(serviceAccounts, config, auth)
    /\ CallFrame

NextAuth == \E auth \in AuthHeaders : Authenticate(auth)

SpecAuth == InitAuth /\ [][NextAuth]_vars

(***************************************************************************)
(* The /mock/azure/vms handlers.  Tags and LastUpdated of a VM are not     *)
(* part of the state; a request that only writes them leaves vms alone.    *)
(***************************************************************************)
VMNames == {"vm-1", "vm-2", "vm-9"}

VMOperations == {"start", "stop", "restart", "tags", "status", "resize"}

\* strings.Split(strings.TrimPrefix(r.URL.Path, "/mock/azure/vms/"), "/")
VMPaths ==
    {<<"">>} \cup {<<name>> : name \in VMNames}
             \cup {<<name, operation>> : name \in VMNames, operation \in VMOperations}

VMMethods == {"GET", "POST", "PUT", "DELETE"}

VMAuthHeaders ==
    {"", "Basic " \o B64Encode("sp1:s1"), "Basic " \o B64Encode("sp1:s2"),
     "Bearer mock_access_token_sp2"}

\* decoded bodies of POST /mock/azure/vms; a field the body omits is ""
VMPayloads ==
    {[Name |-> "vm-3", ResourceGroup |-> "rg-dev", Status |-> "", PowerState |-> ""],
     [Name |-> "vm-1", ResourceGroup |-> "rg-other", Status |-> "running",
      PowerState |-> ""]}

VMResponse(op, status, body, value) ==
    [op |-> op, status |-> status, body |-> body, location |-> <<>>, token |-> <<>>,
     value |-> value]

VMListRequest(method, auth) == [op |-> "vms", method |-> method, auth |-> auth]

VMRequest(method, auth, parts) ==
    [op |-> "vm", method |-> method, auth |-> auth, parts |-> parts]

\* find := func(name string) *MockVM: <<i>> for the first vms[i] of that name
VMFind(name) ==
    LET Hits == {i \in 1..Len(vms) : vms[i].Name = name}
    IN IF Hits = {} THEN <<>> ELSE <<CHOOSE i \in Hits : \A j \in Hits : i <= j>>

\* variant: every caller is let through
checkPermissionAllowAll(sa, vm, permission) == TRUE

\* checkPermission := func(vm *MockVM, permission string) bool
checkPermission(sa, vm, permission) ==
    IF sa = <<>> THEN TRUE
    ELSE hasPermission(serviceAccounts[sa[1]], vm.ResourceGroup, permission)

\* the VMs of the list a service account may read, in store order
RECURSIVE FilterReadable(_, _, _)
FilterReadable(sa, list, i) ==
    IF i > Len(list) THEN <<>>
    ELSE IF hasPermission(sa, list[i].ResourceGroup, "read")
         THEN <<list[i]>> \o FilterReadable(sa, list, i + 1)
    ELSE FilterReadable(sa, list, i + 1)

VMFrame ==
    /\ UNCHANGED <<users, serviceAccounts, config, clients, codes>>
    /\ UNCHANGED histVars
    /\ UNCHANGED threadVars
    /\ UNCHANGED callVars

\* variant: a credential that fails authentication is answered 401
VMListRejectsBadCredential(method, auth) ==
    LET sa == authenticateServiceAccount(serviceAccounts, config, auth) IN
    /\ method # "POST"
    /\ resp' = IF method # "GET"
               THEN VMResponse("vms", 405, "Method not allowed", <<>>)
               ELSE IF sa # <<>>
               THEN VMResponse("vms", 200, "",
                               FilterReadable(serviceAccounts[sa[1]], vms, 1))
               ELSE IF auth # "" THEN VMResponse("vms", 401, "Unauthorized", <<>>)
               ELSE VMResponse("vms", 200, "", vms)
    /\ req' = VMListRequest(method, auth)
    /\ UNCHANGED vms
    /\ VMFrame

\* GET /mock/azure/vms and the methods the handler refuses
VMList(method, auth) ==
    LET sa == authenticateServiceAccount(serviceAccounts, config, auth) IN
    /\ method # "POST"
    /\ resp' = IF method # "GET"
               THEN VMResponse("vms", 405, "Method not allowed", <<>>)
               ELSE IF sa # <<>>
               THEN VMResponse("vms", 200, "",
                               FilterReadable(serviceAccounts[sa[1]], vms, 1))
               ELSE VMResponse("vms", 200, "", vms)
    /\ req' = VMListRequest(method, auth)
    /\ UNCHANGED vms
    /\ VMFrame

\* vm.PowerState and vm.Status default separately
VMDefaults(vm) ==
    [vm EXCEPT !.PowerState = IF @ = "" THEN "VM deallocated" ELSE @,
               !.Status = IF @ = "" THEN "stopped" ELSE @]

\* POST /mock/azure/vms
VMCreate(auth, decodes, payload) ==
    /\ Len(vms) < MaxVMs
    /\ IF ~decodes
       THEN /\ resp' = VMResponse("vms", 400, "Invalid JSON", <<>>)
            /\ UNCHANGED vms
       ELSE /\ vms' = Append(vms, VMDefaults(payload))
            /\ resp' = VMResponse("vms", 201, "", <<VMDefaults(payload)>>)
    /\ req' = VMListRequest("POST", auth)
    /\ VMFrame

VMStatusOf(operation) == IF operation = "stop" THEN "stopped" ELSE "running"

VMPowerStateOf(operation) == IF operation = "stop" THEN "VM deallocated" ELSE "VM running"

\* case "start", "stop", "restart" of the POST switch
VMPowerOperation(sa, i, operation) ==
    IF ~checkPermission(sa, vms[i], operation)
    THEN /\ resp' = VMResponse("vm", 403, "Forbidden: insufficient permissions to "
                                          \o operation \o " VM", <<>>)
         /\ UNCHANGED vms
    ELSE /\ vms' = [vms EXCEPT ![i].Status = VMStatusOf(operation),
                               ![i].PowerState = VMPowerStateOf(operation)]
         /\ resp' = VMResponse("vm", 200, "success", <<>>)

\* the tags body: Invalid JSON, or the tags of the VM are replaced
VMTags(decodes) ==
    /\ resp' = IF decodes THEN VMResponse("vm", 200, "success", <<>>)
               ELSE VMResponse("vm", 400, "Invalid JSON", <<>>)
    /\ UNCHANGED vms

VMGet(sa, parts) ==
    LET found == VMFind(parts[1]) IN
    /\ resp' = IF found = <<>> THEN VMResponse("vm", 404, "VM not found", <<>>)
               ELSE IF ~checkPermission(sa, vms[found[1]], "read")
               THEN VMResponse("vm", 403, "Forbidden: insufficient permissions", <<>>)
               ELSE IF Len(parts) > 1 /\ parts[2] = "status"
               THEN VMResponse("vm", 200, "status",
                               <<[Status |-> vms[found[1]].Status,
                                  PowerState |-> vms[found[1]].PowerState]>>)
               ELSE VMResponse("vm", 200, "", <<vms[found[1]]>>)
    /\ UNCHANGED vms

VMPost(sa, parts, decodes) ==
    LET found == VMFind(parts[1]) IN
    IF Len(parts) < 2
    THEN resp' = VMResponse("vm", 400, "Operation required", <<>>) /\ UNCHANGED vms
    ELSE IF found = <<>>
    THEN resp' = VMResponse("vm", 404, "VM not found", <<>>) /\ UNCHANGED vms
    ELSE IF parts[2] \in {"start", "stop", "restart"}
    THEN VMPowerOperation(sa, found[1], parts[2])
    ELSE IF parts[2] = "tags" THEN VMTags(decodes)
    ELSE resp' = VMResponse("vm", 400, "Unknown operation", <<>>) /\ UNCHANGED vms

VMPut(parts, decodes) ==
    IF Len(parts) > 1 /\ parts[2] = "tags"
    THEN IF VMFind(parts[1]) = <<>>
         THEN resp' = VMResponse("vm", 404, "VM not found", <<>>) /\ UNCHANGED vms
         ELSE VMTags(decodes)
    ELSE resp' = VMResponse("vm", 400, "Operation required", <<>>) /\ UNCHANGED vms

\* /mock/azure/vms/<name>[/<operation>]
VMItem(method, auth, parts, decodes) ==
    LET sa == authenticateServiceAccount(serviceAccounts, config, auth) IN
    /\ IF parts[1] = ""
       THEN resp' = VMResponse("vm", 400, "VM name required", <<>>) /\ UNCHANGED vms
       ELSE IF method = "GET" THEN VMGet(sa, parts)
       ELSE IF method = "POST" THEN VMPost(sa, parts, decodes)
       ELSE IF method = "PUT" THEN VMPut(parts, decodes)
       ELSE resp' = VMResponse("vm", 405, "Method not allowed", <<>>) /\ UNCHANGED vms
    /\ req' = VMRequest(method, auth, parts)
    /\ VMFrame

NextVM ==
    \/ \E method \in VMMethods \ {"POST"}, auth \in VMAuthHeaders : VMList(method, auth)
    \/ \E auth \in VMAuthHeaders, decodes \in BOOLEAN, payload \in VMPayloads :
           VMCreate(auth, decodes, payload)
    \/ \E method \in VMMethods, auth \in VMAuthHeaders, parts \in VMPaths :
           VMItem(method, auth, parts, TRUE)
    \/ \E method \in {"POST", "PUT"}, auth \in VMAuthHeaders, name \in VMNames :
           VMItem(method, auth, <<name, "tags">>, FALSE)
    \/ \E method \in Methods : DataClear(method) /\ Record(DataRequest("clear", method))
    \/ \E method \in Methods : DataReset(method) /\ Record(DataRequest("reset", method))

SpecVM == Init /\ [][NextVM]_vars

(***************************************************************************)
(* MatchPath.  The pattern is turned into a regular expression: every      *)
(* placeholder becomes the group ([^/]+), everything else is copied as it  *)
(* is, so a "." of the pattern stands for any character.  The patterns     *)
(* offered below contain no other character that is special in a regular   *)
(* expression.                                                             *)
(***************************************************************************)
Group == "([^/]+)"

\* regexp \{([^}]+)\} tried at position i: the position of the closing
\* brace of the placeholder that starts at i, or 0
PlaceholderEnd(pattern, i) ==
    IF i > Len(pattern) \/ SubSeq(pattern, i, i) # "{" THEN 0
    ELSE LET j == IndexFrom(pattern, "}", i + 1) IN
         IF j > i + 1 THEN j ELSE 0

\* the position of the first placeholder of pattern at or after i, or
\* Len(pattern) + 1
NextPlaceholder(pattern, i) ==
    LET Starts == {k \in i..(Len(pattern) + 1) :
                      k = Len(pattern) + 1 \/ PlaceholderEnd(pattern, k) # 0}
    IN CHOOSE k \in Starts : \A o \in Starts : k <= o

\* re.FindAllStringSubmatch(pattern, -1): the names, left to right
RECURSIVE ParamNamesFrom(_, _)
ParamNamesFrom(pattern, i) ==
    LET k == NextPlaceholder(pattern, i) IN
    IF k > Len(pattern) THEN <<>>
    ELSE <<SubSeq(pattern, k + 1, PlaceholderEnd(pattern, k) - 1)>>
         \o ParamNamesFrom(pattern, PlaceholderEnd(pattern, k) + 1)

ParamNames(pattern) == ParamNamesFrom(pattern, 1)

\* regexPattern after the strings.ReplaceAll calls, one token per group and
\* per run of copied characters
RECURSIVE RegexTokensFrom(_, _)
RegexTokensFrom(pattern, i) ==
    IF i > Len(pattern) THEN <<>>
    ELSE LET k == NextPlaceholder(pattern, i) IN
         IF k = i THEN <<Group>> \o RegexTokensFrom(pattern, PlaceholderEnd(pattern, i) + 1)
         ELSE <<SubSeq(pattern, i, k - 1)>> \o RegexTokensFrom(pattern, k)

RegexTokens(pattern) == RegexTokensFrom(pattern, 1)

\* the number of characters other than "/" that s has from position i on
RunLength(s, i) ==
    LET Stops == {k \in i..(Len(s) + 1) : k = Len(s) + 1 \/ SubSeq(s, k, k) = "/"}
    IN (CHOOSE k \in Stops : \A o \in Stops : k <= o) - i

\* the copied characters lit match s at position i: a "." matches any
\* character, every other character matches itself
LiteralMatches(lit, s, i) ==
    /\ i + Len(lit) - 1 <= Len(s)
    /\ \A c \in 1..Len(lit) :
           SubSeq(lit, c, c) = "." \/ SubSeq(lit, c, c) = SubSeq(s, i + c - 1, i + c - 1)

\* regex.FindStringSubmatch for "^" + regexPattern + "$": tokens k.. against
\* s from position i; a group takes the longest run that lets the rest match
RECURSIVE RegexMatchFrom(_, _, _, _)
RegexMatchFrom(toks, k, s, i) ==
    IF k > Len(toks) THEN [ok |-> i = Len(s) + 1, groups |-> <<>>]
    ELSE IF toks[k] = Group
    THEN LET Fits == {n \in 1..RunLength(s, i) : RegexMatchFrom(toks, k + 1, s, i + n).ok}
         IN IF Fits = {} THEN [ok |-> FALSE, groups |-> <<>>]
            ELSE LET n == CHOOSE m \in Fits : \A o \in Fits : o <= m
                 IN [ok |-> TRUE,
                     groups |-> <<SubSeq(s, i, i + n - 1)>>
                                \o RegexMatchFrom(toks, k + 1, s, i + n).groups]
    ELSE IF LiteralMatches(toks[k], s, i)
    THEN RegexMatchFrom(toks, k + 1, s, i + Len(toks[k]))
    ELSE [ok |-> FALSE, groups |-> <<>>]

\* for i, paramName := range paramNames { params[paramName] = match[i+1] }
RECURSIVE BindParams(_, _, _, _)
BindParams(params, names, groups, i) ==
    IF i > Len(names) THEN params
    ELSE IF i <= Len(groups)
         THEN BindParams(MapPut(params, names[i], groups[i]), names, groups, i + 1)
         ELSE BindParams(params, names, groups, i + 1)

MatchPath(pattern, requestPath) ==
    LET m == RegexMatchFrom(RegexTokens(pattern), 1, requestPath, 1) IN
    IF ~m.ok THEN [matched |-> FALSE, params |-> EmptyMap]
    ELSE [matched |-> TRUE,
          params |-> BindParams(EmptyMap, ParamNames(pattern), m.groups, 1)]

(***************************************************************************)
(* MatchPath applied to bounded patterns and paths                         *)
(***************************************************************************)
PatternSegments == {"a", "a.b", "{x}", "{y}"}

PathSegments == {"a", "b", "a.b", "axb", ""}

\* "/" followed by the segments, joined by "/"
RECURSIVE JoinPath(_)
JoinPath(segments) ==
    IF Len(segments) = 0 THEN ""
    ELSE "/" \o segments[1] \o JoinPath(Tail(segments))

\* patterns whose placeholder names are distinct
MatchPatterns ==
    {JoinPath(segs) : segs \in
        {q \in UNION {[1..k -> PatternSegments] : k \in 1..MaxSegments} :
            \A i \in 1..Len(q), j \in 1..Len(q) :
                (i # j /\ SubSeq(q[i], 1, 1) = "{") => q[i] # q[j]}}

MatchPaths ==
    {JoinPath(segs) : segs \in UNION {[1..k -> PathSegments] : k \in 1..MaxSegments}}

CallMatchPath(pattern, requestPath) ==
    /\ call' = [fn |-> "MatchPath", pattern |-> pattern, requestPath |-> requestPath]
    /\ ret' = <<MatchPath(pattern, requestPath)>>
    /\ CallFrame

NextMatch ==
    \E pattern \in MatchPatterns, requestPath \in MatchPaths :
        CallMatchPath(pattern, requestPath)

SpecMatch == Init /\ [][NextMatch]_vars

(***************************************************************************)
(* GenerateRoutes.  A document is what the loader hands over: its format,  *)
(* its API type and, per path and declared method, the operation id it     *)
(* declares ("" when it declares none).                                    *)
(***************************************************************************)
Documents ==
    {[Format |-> "openapi3", Type |-> "graph",
      Paths |-> [p \in {"/users"} |-> [m \in {"GET", "POST"} |-> ""]]],
     [Format |-> "openapi3", Type |-> "graph",
      Paths |-> [p \in {"/users", "/users/{user-id}"} |->
                    [m \in {"GET"} |-> IF p = "/users" THEN "ListUsers" ELSE ""]]],
     [Format |-> "swagger2", Type |-> "arm",
      Paths |-> [p \in {"/a/b", "/a_b"} |-> [m \in {"GET"} |-> ""]]],
     [Format |-> "swagger2", Type |-> "arm",
      Paths |-> [p \in {"/vms/{vmName}/start"} |->
                    [m \in {"GET", "POST"} |->
                        IF m = "POST" THEN "VirtualMachines_Start" ELSE ""]]]}

\* the documents of a registry, in the order they were registered
Registries == SeqUpTo(Documents, MaxDocuments)

\* strings.ReplaceAll(s, old, new) for a one-character old
RECURSIVE ReplaceAllFrom(_, _, _, _)
ReplaceAllFrom(s, old, new, i) ==
    IF i > Len(s) THEN ""
    ELSE (IF SubSeq(s, i, i) = old THEN new ELSE SubSeq(s, i, i))
         \o ReplaceAllFrom(s, old, new, i + 1)

ReplaceAll(s, old, new) == ReplaceAllFrom(s, old, new, 1)

\* the methods generateFromOpenAPI3 and generateFromSwagger2 look at
RouteMethods == {"GET", "POST", "PUT", "DELETE", "PATCH"}

\* the (path, method) pairs a document declares
DeclaredOperations(doc) ==
    {o \in (DOMAIN doc.Paths) \X RouteMethods : o[2] \in DOMAIN doc.Paths[o[1]]}

Route(method, path, operationID, apiType) ==
    [Method |-> method, Path |-> path, OperationID |-> operationID, APIType |-> apiType]

\* generateFromOpenAPI3: the route of one operation
OpenAPI3Route(doc, path, method) ==
    Route(method, path, doc.Paths[path][method], doc.Type)

\* generateFromSwagger2: the route of one operation
Swagger2Route(doc, path, method) ==
    LET declared == doc.Paths[path][method] IN
    Route(method, path,
          IF declared = "" THEN method \o "_" \o ReplaceAll(path, "/", "_") ELSE declared,
          doc.Type)

\* the orders in which a range loop may visit the elements of a map
Orders(S) ==
    {q \in [1..Cardinality(S) -> S] : \A i, j \in 1..Cardinality(S) : i # j => q[i] # q[j]}

\* the routes of one document, its operations visited in the given order
GenerateFrom(doc, order) ==
    [i \in 1..Len(order) |->
        IF doc.Format = "openapi3" THEN OpenAPI3Route(doc, order[i][1], order[i][2])
        ELSE Swagger2Route(doc, order[i][1], order[i][2])]

\* routes = append(routes, specRoutes...) over the documents of one API type
RECURSIVE GenerateType(_, _, _, _)
GenerateType(registry, apiType, orders, i) ==
    IF i > Len(registry) THEN <<>>
    ELSE IF registry[i].Type # apiType THEN GenerateType(registry, apiType, orders, i + 1)
    ELSE GenerateFrom(registry[i], orders[i]) \o GenerateType(registry, apiType, orders, i + 1)

\* GenerateRoutes: the API types visited in typeOrder, each document's
\* operations in orders[i]
RECURSIVE GenerateRoutes(_, _, _, _)
GenerateRoutes(registry, typeOrder, orders, k) ==
    IF k > Len(typeOrder) THEN <<>>
    ELSE GenerateType(registry, typeOrder[k], orders, 1)
         \o GenerateRoutes(registry, typeOrder, orders, k + 1)

InitCompile ==
    /\ StoreInit
    /\ req = NoRequest
    /\ resp = NoResponse
    /\ redeemed = {}
    /\ pending = {}
    /\ ThreadsIdle
    /\ \E registry \in Registries : call = [fn |-> "NewRegistry", registry |-> registry]
    /\ ret = <<>>

Compile(typeOrder, orders) ==
    /\ call' = [fn |-> "GenerateRoutes", registry |-> call.registry]
    /\ ret' = <<GenerateRoutes(call.registry, typeOrder, orders, 1)>>
    /\ CallFrame

NextCompile ==
    \E typeOrder \in Orders({call.registry[i].Type : i \in 1..Len(call.registry)}) :
        \E orders \in [1..Len(call.registry) -> UNION {Orders(DeclaredOperations(d)) :
                                                          d \in Documents}] :
            /\ \A i \in 1..Len(call.registry) :
                   orders[i] \in Orders(DeclaredOperations(call.registry[i]))
            /\ Compile(typeOrder, orders)

SpecCompile == InitCompile /\ [][NextCompile]_vars

(***************************************************************************)
(* The response mappers.  Every slice they encode is made by make or by a  *)
(* slice literal, so a list without items is encoded as [] and a list      *)
(* payload is its sequence of items.                                       *)
(***************************************************************************)
UpperCase == "ABCDEFGHIJKLMNOPQRSTUVWXYZ"

LowerCase == "abcdefghijklmnopqrstuvwxyz"

\* strings.ToLower of the characters lo..hi of s
RECURSIVE ToLowerFrom(_, _, _)
ToLowerFrom(s, lo, hi) ==
    IF lo > hi THEN ""
    ELSE IF lo = hi
    THEN LET k == Index(UpperCase, SubSeq(s, lo, lo)) IN
         IF k = 0 THEN SubSeq(s, lo, lo) ELSE SubSeq(LowerCase, k, k)
    ELSE ToLowerFrom(s, lo, (lo + hi) \div 2) \o ToLowerFrom(s, (lo + hi) \div 2 + 1, hi)

\* strings.ToLower
ToLower(s) == ToLowerFrom(s, 1, Len(s))

\* strings.Contains
Contains(s, substr) ==
    \E i \in 1..(Len(s) - Len(substr) + 1) : SubSeq(s, i, i + Len(substr) - 1) = substr

\* params[key]: a key the map does not hold reads as ""
Param(params, key) == IF key \in DOMAIN params THEN params[key] ELSE ""

\* the resource groups of the configuration file; no handler assigns
\* store.resourceGroups, and init reloads them from the same file
ConfigResourceGroups == <<[Name |-> "rg-dev"], [Name |-> "rg-other"], [Name |-> "rg-lab"]>>

GetResourceGroups == [i \in 1..Len(ConfigResourceGroups) |-> [name |-> ConfigResourceGroups[i].Name]]

GetVMs ==
    [i \in 1..Len(vms) |->
        [name |-> vms[i].Name, resourceGroup |-> vms[i].ResourceGroup,
         status |-> vms[i].Status, powerState |-> vms[i].PowerState]]

GetUsers ==
    [i \in 1..Len(users) |->
        [id |-> users[i].ID, displayName |-> users[i].DisplayName,
         userPrincipalName |-> users[i].UserPrincipalName, mail |-> users[i].Mail]]

ListPayload(items) == [kind |-> "list", value |-> items]

ObjectPayload(item) == [kind |-> "object", value |-> <<item>>]

\* a nil response, encoded as null
NullPayload == [kind |-> "null", value |-> <<>>]

MapResult(payload) == [err |-> "", payload |-> payload]

MapError(message) == [err |-> message, payload |-> NullPayload]

\* the first element of list that satisfies the test given as a set of indices
FirstOf(Hits) == CHOOSE i \in Hits : \A j \in Hits : i <= j

mapResourceGroupsResponse(method, params) ==
    LET rgName == Param(params, "resourceGroupName")
        Hits == {i \in 1..Len(GetResourceGroups) : GetResourceGroups[i].name = rgName}
    IN IF method = "GET"
       THEN IF rgName # ""
            THEN IF Hits # {} THEN MapResult(ObjectPayload(GetResourceGroups[FirstOf(Hits)]))
                 ELSE MapError("resource group not found: " \o rgName)
            ELSE MapResult(ListPayload(GetResourceGroups))
       ELSE IF method \in {"POST", "PUT"}
       THEN MapResult(ObjectPayload([name |-> rgName]))
       ELSE IF method = "DELETE" THEN MapResult(NullPayload)
       ELSE MapError("unsupported method: " \o method)

\* the power-state code is derived from the status
convertVMToARMFormat(vm) ==
    [name |-> vm.name,
     type |-> "Microsoft.Compute/virtualMachines",
     instanceView |->
         <<[code |-> IF vm.status = "stopped" THEN "PowerState/deallocated"
                     ELSE "PowerState/" \o vm.status,
            displayStatus |-> vm.powerState]>>]

\* the loop of the detail lookup: the first VM of that name whose resource
\* group is the one asked for, when one is asked for
VMDetailHits(vmName, resourceGroup) ==
    {i \in 1..Len(GetVMs) :
        /\ GetVMs[i].name = vmName
        /\ resourceGroup # "" => GetVMs[i].resourceGroup = resourceGroup}

RECURSIVE FilterVMs(_, _)
FilterVMs(resourceGroup, i) ==
    IF i > Len(GetVMs) THEN <<>>
    ELSE IF resourceGroup = "" \/ GetVMs[i].resourceGroup = resourceGroup
         THEN <<convertVMToARMFormat(GetVMs[i])>> \o FilterVMs(resourceGroup, i + 1)
    ELSE FilterVMs(resourceGroup, i + 1)

mapVirtualMachinesResponse(operationID, method, params) ==
    LET vmName == Param(params, "vmName")
        resourceGroup == Param(params, "resourceGroupName")
        Hits == VMDetailHits(vmName, resourceGroup)
    IN IF method = "GET"
       THEN IF vmName # ""
            THEN IF Hits # {}
                 THEN MapResult(ObjectPayload(convertVMToARMFormat(GetVMs[FirstOf(Hits)])))
                 ELSE MapError("virtual machine not found: " \o vmName)
            ELSE MapResult(ListPayload(FilterVMs(resourceGroup, 1)))
       ELSE IF method = "POST"
       THEN IF \/ Contains(operationID, "Start") \/ Contains(operationID, "start")
               \/ Contains(operationID, "Deallocate") \/ Contains(operationID, "stop")
               \/ Contains(operationID, "Restart") \/ Contains(operationID, "restart")
            THEN MapResult(ObjectPayload([status |-> "Succeeded"]))
            ELSE MapResult(ObjectPayload([name |-> vmName,
                                          type |-> "Microsoft.Compute/virtualMachines"]))
       ELSE MapError("unsupported method: " \o method)

mapOperationsResponse ==
    MapResult(ListPayload(<<[name |-> "Microsoft.Resources/ResourceGroups/read"],
                            [name |-> "Microsoft.Resources/ResourceGroups/write"],
                            [name |-> "Microsoft.Compute/virtualMachines/read"],
                            [name |-> "Microsoft.Compute/virtualMachines/write"]>>))

MapARMOperationStatus(params) ==
    MapResult(ObjectPayload([status |-> "Succeeded", id |-> Param(params, "operationId")]))

MapARMResponse(operationID, pathPattern, method, params) ==
    LET pathLower == ToLower(pathPattern) IN
    IF Contains(pathLower, "resourcegroups")
    THEN mapResourceGroupsResponse(method, params)
    ELSE IF Contains(pathLower, "virtualmachines")
    THEN mapVirtualMachinesResponse(operationID, method, params)
    ELSE IF Contains(pathLower, "/operations") THEN mapOperationsResponse
    ELSE MapResult(ListPayload(<<>>))

convertUserToGraphFormat(user) ==
    [id |-> user.id, displayName |-> user.displayName,
     userPrincipalName |-> user.userPrincipalName, mail |-> user.mail]

\* the first user whose id or principal name is userID
UserHits(userID) ==
    {i \in 1..Len(GetUsers) :
        GetUsers[i].id = userID \/ GetUsers[i].userPrincipalName = userID}

mapUsersResponse(method, params) ==
    LET userID == IF Param(params, "user-id") # "" THEN Param(params, "user-id")
                  ELSE Param(params, "id")
        Hits == UserHits(userID)
    IN IF method = "GET"
       THEN IF userID # ""
            THEN IF Hits # {}
                 THEN MapResult(ObjectPayload(convertUserToGraphFormat(GetUsers[FirstOf(Hits)])))
                 ELSE MapError("user not found: " \o userID)
            ELSE MapResult(ListPayload([i \in 1..Len(GetUsers) |->
                                           convertUserToGraphFormat(GetUsers[i])]))
       ELSE IF method = "POST"
       THEN MapResult(ObjectPayload([id |-> userID,
                                     displayName |-> Param(params, "displayName"),
                                     userPrincipalName |-> Param(params, "userPrincipalName")]))
       ELSE MapError("unsupported method: " \o method)

GetServiceAccounts ==
    [i \in 1..Len(serviceAccounts) |->
        [applicationId |-> serviceAccounts[i].ApplicationID,
         accountEnabled |-> serviceAccounts[i].AccountEnabled]]

convertServiceAccountToGraphFormat(sa) ==
    [appId |-> sa.applicationId, accountEnabled |-> sa.accountEnabled,
     servicePrincipalType |-> "Application"]

mapServicePrincipalsResponse(method, params) ==
    LET spID == IF Param(params, "servicePrincipal-id") # ""
                THEN Param(params, "servicePrincipal-id") ELSE Param(params, "id")
        Hits == {i \in 1..Len(GetServiceAccounts) : GetServiceAccounts[i].applicationId = spID}
    IN IF method = "GET"
       THEN IF spID # ""
            THEN IF Hits # {}
                 THEN MapResult(ObjectPayload(
                          convertServiceAccountToGraphFormat(GetServiceAccounts[FirstOf(Hits)])))
                 ELSE MapError("service principal not found: " \o spID)
            ELSE MapResult(ListPayload([i \in 1..Len(GetServiceAccounts) |->
                              convertServiceAccountToGraphFormat(GetServiceAccounts[i])]))
       ELSE MapError("unsupported method: " \o method)

MapGraphResponse(pathPattern, method, params) ==
    LET pathLower == ToLower(pathPattern) IN
    IF Contains(pathLower, "/users") THEN mapUsersResponse(method, params)
    ELSE IF Contains(pathLower, "/serviceprincipals")
    THEN mapServicePrincipalsResponse(method, params)
    ELSE MapResult(ListPayload(<<>>))

(***************************************************************************)
(* RegisterRoutes, the HTTP mux and the route handlers.  The mux is the    *)
(* standard library's http.ServeMux: a pattern that ends in "/" matches    *)
(* every path it is a prefix of, any other pattern matches the equal path, *)
(* the longest matching pattern wins, a path that only matches once "/" is *)
(* appended is redirected, and registering one pattern twice panics.       *)
(***************************************************************************)
HasSuffix(s, suffix) ==
    Len(s) >= Len(suffix) /\ SubSeq(s, Len(s) - Len(suffix) + 1, Len(s)) = suffix

\* extractBasePath: the pattern up to its first "{"
extractBasePath(pattern) ==
    LET idx == Index(pattern, "{") IN
    IF idx = 0 THEN pattern ELSE SubSeq(pattern, 1, idx - 1)

IsParameterized(route) == Contains(route.Path, "{")

\* the key of a parameterized route in routeMap
BasePathOf(route) ==
    IF extractBasePath(route.Path) = "" THEN "/" ELSE extractBasePath(route.Path)

RECURSIVE SelectRoutes(_, _, _)
SelectRoutes(routes, Keep, i) ==
    IF i > Len(routes) THEN <<>>
    ELSE IF i \in Keep THEN <<routes[i]>> \o SelectRoutes(routes, Keep, i + 1)
    ELSE SelectRoutes(routes, Keep, i + 1)

exactRoutes(routes) ==
    SelectRoutes(routes, {i \in 1..Len(routes) : ~IsParameterized(routes[i])}, 1)

\* routeMap[basePath]
routeGroup(routes, basePath) ==
    SelectRoutes(routes, {i \in 1..Len(routes) :
                             IsParameterized(routes[i]) /\ BasePathOf(routes[i]) = basePath}, 1)

Registration(pattern, exact, routes) == [Pattern |-> pattern, Exact |-> exact, Routes |-> routes]

\* mux.HandleFunc(route.Path, handler) and, without a trailing slash,
\* mux.HandleFunc(route.Path+"/", handler)
RECURSIVE RegisterExact(_, _)
RegisterExact(exact, i) ==
    IF i > Len(exact) THEN <<>>
    ELSE <<Registration(exact[i].Path, TRUE, <<exact[i]>>)>>
         \o (IF HasSuffix(exact[i].Path, "/") THEN <<>>
             ELSE <<Registration(exact[i].Path \o "/", TRUE, <<exact[i]>>)>>)
         \o RegisterExact(exact, i + 1)

\* the registration of one group of parameterized routes
RegisterGroup(routes, basePath) ==
    IF basePath = "/"
    THEN IF \E i \in 1..Len(routes) : ~IsParameterized(routes[i]) /\ routes[i].Path = "/"
         THEN <<>>
         ELSE <<Registration("/", FALSE, routeGroup(routes, basePath))>>
    ELSE <<Registration(IF HasSuffix(basePath, "/") THEN basePath ELSE basePath \o "/",
                        FALSE, routeGroup(routes, basePath))>>

\* the groups are registered in the order the map hands out its keys; the
\* order has no effect on the patterns registered
RECURSIVE RegisterGroups(_, _)
RegisterGroups(routes, basePaths) ==
    IF basePaths = {} THEN <<>>
    ELSE LET basePath == CHOOSE b \in basePaths : TRUE IN
         RegisterGroup(routes, basePath) \o RegisterGroups(routes, basePaths \ {basePath})

\* the calls of mux.HandleFunc that RegisterRoutes makes
RegisterRoutes(routes) ==
    RegisterExact(exactRoutes(routes), 1)
    \o RegisterGroups(routes, {BasePathOf(routes[i]) :
                                  i \in {j \in 1..Len(routes) : IsParameterized(routes[j])}})

\* http.ServeMux panics when a pattern is registered a second time
RegistrationPanics(mux) ==
    \E i, j \in 1..Len(mux) : i # j /\ mux[i].Pattern = mux[j].Pattern

\* variant: the mux prefers the longest pattern ending in "/" to the
\* pattern equal to the path
MuxMatchPrefixFirst(mux, path) ==
    LET Equal == {i \in 1..Len(mux) : mux[i].Pattern = path}
        Prefix == {i \in 1..Len(mux) :
                      HasSuffix(mux[i].Pattern, "/") /\ HasPrefix(path, mux[i].Pattern)}
    IN IF Prefix # {}
       THEN <<CHOOSE i \in Prefix : \A j \in Prefix : Len(mux[j].Pattern) <= Len(mux[i].Pattern)>>
       ELSE IF Equal # {} THEN <<CHOOSE i \in Equal : TRUE>>
       ELSE <<>>

\* the registration http.ServeMux picks for a path: <<i>>, or <<>> for none
MuxMatch(mux, path) ==
    LET Equal == {i \in 1..Len(mux) : mux[i].Pattern = path}
        Prefix == {i \in 1..Len(mux) :
                      HasSuffix(mux[i].Pattern, "/") /\ HasPrefix(path, mux[i].Pattern)}
    IN IF Equal # {} THEN <<CHOOSE i \in Equal : TRUE>>
       ELSE IF Prefix = {} THEN <<>>
       ELSE <<CHOOSE i \in Prefix : \A j \in Prefix : Len(mux[j].Pattern) <= Len(mux[i].Pattern)>>

\* the path is not registered, the path followed by "/" is
MuxRedirects(mux, path) ==
    /\ \A i \in 1..Len(mux) : mux[i].Pattern # path
    /\ ~HasSuffix(path, "/")
    /\ \E i \in 1..Len(mux) : mux[i].Pattern = path \o "/"

RouteResponse(status, body, route, mapped, payload) ==
    [op |-> "route", status |-> status, body |-> body, location |-> <<>>, token |-> <<>>,
     route |-> route, mapped |-> mapped, params |-> EmptyMap, payload |-> payload]

\* the response written for the result of a mapper
MapperResponse(route, code, result) ==
    IF result.err = "" THEN RouteResponse(200, "", <<route>>, TRUE, result.payload)
    ELSE RouteResponse(IF Contains(result.err, "not found") THEN 404 ELSE 500, "",
                       <<route>>, TRUE,
                       [kind |-> "error",
                        value |-> <<[code |-> code, message |-> result.err]>>])

\* params: the parameters handed to the mapper, kept beside the response
handleARMRequest(route, params) ==
    [(IF Contains(route.Path, "/operations/") /\ route.Method = "GET"
      THEN MapperResponse(route, "ResourceNotFound", MapARMOperationStatus(params))
      ELSE MapperResponse(route, "ResourceNotFound",
                          MapARMResponse(route.OperationID, route.Path, route.Method, params)))
        EXCEPT !.params = params]

handleGraphRequest(route, params) ==
    [MapperResponse(route, "ItemNotFound", MapGraphResponse(route.Path, route.Method, params))
        EXCEPT !.params = params]

handleIdentityRequest(route) ==
    RouteResponse(501, "Identity endpoint not implemented", <<route>>, FALSE, NullPayload)

\* allParams: the path parameters, then the query parameters over them
MergeParams(pathParams, queryParams) ==
    [k \in (DOMAIN pathParams) \cup (DOMAIN queryParams) |->
        IF k \in DOMAIN queryParams THEN queryParams[k] ELSE pathParams[k]]

\* route.Handler: the Authorization header of the request is not read
handleRequest(route, pathParams, queryParams) ==
    IF route.APIType = "arm" THEN handleARMRequest(route, MergeParams(pathParams, queryParams))
    ELSE IF route.APIType = "graph"
    THEN handleGraphRequest(route, MergeParams(pathParams, queryParams))
    ELSE IF route.APIType = "identity" THEN handleIdentityRequest(route)
    ELSE RouteResponse(500, "Unknown API type: " \o route.APIType, <<route>>, FALSE,
                       NullPayload)

NotFound == RouteResponse(404, "404 page not found", <<>>, FALSE, NullPayload)

createRouteHandler(route, method, path, queryParams) ==
    IF method # route.Method
    THEN RouteResponse(405, "Method not allowed", <<>>, FALSE, NullPayload)
    ELSE IF ~MatchPath(route.Path, path).matched THEN NotFound
    ELSE handleRequest(route, MatchPath(route.Path, path).params, queryParams)

\* the handler of a group: the first route of the request's method whose
\* pattern matches
RECURSIVE GroupHandler(_, _, _, _, _)
GroupHandler(routes, i, method, path, queryParams) ==
    IF i > Len(routes) THEN NotFound
    ELSE IF method # routes[i].Method
    THEN GroupHandler(routes, i + 1, method, path, queryParams)
    ELSE IF MatchPath(routes[i].Path, path).matched
    THEN handleRequest(routes[i], MatchPath(routes[i].Path, path).params, queryParams)
    ELSE GroupHandler(routes, i + 1, method, path, queryParams)

\* mux.ServeHTTP for a path in its clean form
ServeHTTP(mux, method, path, queryParams) ==
    IF MuxRedirects(mux, path)
    THEN [RouteResponse(301, "Moved Permanently", <<>>, FALSE, NullPayload)
              EXCEPT !.location = <<path \o "/">>]
    ELSE IF MuxMatch(mux, path) = <<>> THEN NotFound
    ELSE LET reg == mux[MuxMatch(mux, path)[1]] IN
         IF reg.Exact THEN createRouteHandler(reg.Routes[1], method, path, queryParams)
         ELSE GroupHandler(reg.Routes, 1, method, path, queryParams)

(***************************************************************************)
(* The server with routes compiled from documents                          *)
(***************************************************************************)
ARMRoutes ==
    <<Route("GET", "/s/{sub}/resourcegroups", "ResourceGroups_List", "arm"),
      Route("GET", "/s/{sub}/resourcegroups/{resourceGroupName}", "ResourceGroups_Get", "arm"),
      Route("GET", "/s/{sub}/virtualMachines", "VirtualMachines_ListAll", "arm"),
      Route("GET", "/s/{sub}/resourceGroups/{resourceGroupName}/virtualMachines",
            "VirtualMachines_List", "arm"),
      Route("GET", "/s/{sub}/resourceGroups/{resourceGroupName}/virtualMachines/{vmName}",
            "VirtualMachines_Get", "arm"),
      Route("POST",
            "/s/{sub}/resourceGroups/{resourceGroupName}/virtualMachines/{vmName}/start",
            "VirtualMachines_Start", "arm"),
      Route("GET", "/s/{sub}/operations/{operationId}", "Operations_Get", "arm")>>

UsersList == Route("GET", "/users", "user_ListUser", "graph")

UsersDelta == Route("GET", "/users/delta", "user_delta", "graph")

UsersGet == Route("GET", "/users/{user-id}", "user_GetUser", "graph")

UsersDelete == Route("DELETE", "/users/{user-id}", "user_DeleteUser", "graph")

Keys == Route("GET", "/keys", "", "identity")

UsersCreate == Route("POST", "/users", "user_CreateUser", "graph")

CollectionCount == Route("GET", "/{collection}/count", "collection_Count", "graph")

ResourceGroupsList == Route("GET", "/s/{sub}/resourcegroups", "ResourceGroups_List", "arm")

CollectionList == Route("GET", "/s/{sub}/{collection}", "Collection_List", "arm")

\* the route sets the server is started with, in the orders compilation may
\* produce
RouteTables ==
    {ARMRoutes \o <<UsersList, Keys>>, <<Keys, UsersList>> \o ARMRoutes}
        \cup Orders({UsersDelta, UsersGet, UsersDelete})
        \cup {<<UsersList, UsersGet>>, <<UsersList, UsersCreate>>}
        \cup {<<UsersList, CollectionCount>>}
        \cup Orders({ResourceGroupsList, CollectionList})

RoutePaths ==
    {"/s/0/resourcegroups", "/s/0/resourcegroups/rg-dev", "/s/0/resourcegroups/rg-x",
     "/s/0/virtualMachines", "/s/0/resourceGroups/rg-lab/virtualMachines",
     "/s/0/resourceGroups/rg-dev/virtualMachines/vm-1",
     "/s/0/resourceGroups/rg-dev/virtualMachines/vm-9",
     "/s/0/resourceGroups/rg-x/virtualMachines/vm-9",
     "/s/0/resourceGroups/rg-other/virtualMachines/vm-2",
     "/s/0/resourceGroups/rg-other/virtualMachines/vm-2/start",
     "/s/0/operations/op1", "/users", "/users/", "/users/delta", "/users/u1",
     "/users/nobody", "/users/count", "/keys", "/nowhere"}

\* the paths offered with a query string or with credentials as well
VMRoutePaths ==
    {"/s/0/virtualMachines", "/s/0/resourceGroups/rg-lab/virtualMachines",
     "/s/0/resourceGroups/rg-dev/virtualMachines/vm-1",
     "/s/0/resourceGroups/rg-other/virtualMachines/vm-2"}

RouteMethodsOffered == {"GET", "POST", "DELETE"}

QueryParams == {EmptyMap, MapPut(EmptyMap, "resourceGroupName", "rg-lab")}

\* further requests with a query string: <<path, query>>
QueriedPaths ==
    {<<"/s/0/virtualMachines", MapPut(EmptyMap, "$expand", "instanceView")>>,
     <<"/s/0/resourcegroups/rg-dev", MapPut(EmptyMap, "resourceGroupName", "rg-lab")>>,
     <<"/s/0/resourcegroups", MapPut(EmptyMap, "resourceGroupName", "rg-lab")>>,
     <<"/users/u1", MapPut(EmptyMap, "user-id", "u2")>>,
     <<"/users", MapPut(EmptyMap, "user-id", "u1")>>}

RouteAuthHeaders == {"", "Basic " \o B64Encode("sp1:s1")}

RouteRequest(method, path, queryParams, auth) ==
    [op |-> "route", method |-> method, path |-> path, query |-> queryParams, auth |-> auth]

RouteRequests ==
    {RouteRequest(method, path, EmptyMap, "") :
         method \in RouteMethodsOffered, path \in RoutePaths}
    \cup {RouteRequest("GET", path, queryParams, auth) :
              path \in VMRoutePaths, queryParams \in QueryParams, auth \in RouteAuthHeaders}
    \cup {RouteRequest("GET", q[1], q[2], "") : q \in QueriedPaths}

InitRoute ==
    /\ StoreInit
    /\ req = NoRequest
    /\ resp = NoResponse
    /\ redeemed = {}
    /\ pending = {}
    /\ pc = [t \in Threads |-> "idle"]
    /\ treq = [t \in Threads |-> ""]
    /\ tac = [t \in Threads |-> <<>>]
    /\ tresp = [t \in Threads |-> NoResponse]
    /\ \E routes \in RouteTables :
           /\ call = [fn |-> "RegisterRoutes", routes |-> routes]
           /\ ret = <<RegisterRoutes(routes)>>
           /\ crashed = RegistrationPanics(RegisterRoutes(routes))

\* one request served by the mux
Serve(r) ==
    /\ ~crashed
    /\ resp' = ServeHTTP(ret[1], r.method, r.path, r.query)
    /\ req' = r
    /\ UNCHANGED storeVars
    /\ UNCHANGED histVars
    /\ UNCHANGED threadVars
    /\ UNCHANGED callVars

NextRoute ==
    \/ \E r \in RouteRequests : Serve(r)
    \/ \E method \in Methods :
           ~crashed /\ DataClear(method) /\ Record(DataRequest("clear", method))
    \/ \E method \in Methods :
           ~crashed /\ DataReset(method) /\ Record(DataRequest("reset", method))

SpecRoute == InitRoute /\ [][NextRoute]_vars

(***************************************************************************)
(* The directory get-by-key route over the user tables a configuration     *)
(* file can hold                                                           *)
(***************************************************************************)
UserIDs3 == {"u1", "u2", "u3"}

UserNames == {"u2", "ann@dev.local", "bob@dev.local"}

ConfigUser(id, upn) ==
    [ID |-> id, DisplayName |-> "user " \o id, UserPrincipalName |-> upn,
     Mail |-> "mail." \o upn]

\* fc.Users: ids are unique within a file; a principal name is free text
UserTables ==
    {t \in SeqUpTo({ConfigUser(id, upn) : id \in UserIDs3, upn \in UserNames}, MaxUsers) :
        \A i, j \in 1..Len(t) : i # j => t[i].ID # t[j].ID}

UserKeys == {"u1", "u2", "ann@dev.local", "nobody"}

\* the store after init with the users of the file, and the mux after
\* RegisterRoutes with the get-by-key route
InitUsers ==
    /\ vms = ConfigVMs
    /\ users \in UserTables
    /\ serviceAccounts = LoadServiceAccounts(ConfigServiceAccounts)
    /\ config = LoadSecrets(ConfigServiceAccounts)
    /\ clients = EmptyMap
    /\ codes = EmptyMap
    /\ req = NoRequest
    /\ resp = NoResponse
    /\ redeemed = {}
    /\ pending = {}
    /\ ThreadsIdle
    /\ call = [fn |-> "RegisterRoutes", routes |-> <<UsersGet>>]
    /\ ret = <<RegisterRoutes(<<UsersGet>>)>>

UserRequests == {RouteRequest("GET", "/users/" \o key, EmptyMap, "") : key \in UserKeys}

NextUsers == \E r \in UserRequests : Serve(r)

SpecUsers == InitUsers /\ [][NextUsers]_vars

(***************************************************************************)
(* The data-reset handler statement by statement, beside requests that     *)
(* read the store.  The handlers share the store without a lock; a reader  *)
(* is taken to read each table whole, as it stands between two statements  *)
(* of the reset.  One reset runs at a time, and data clear runs between    *)
(* resets.                                                                 *)
(***************************************************************************)
ResetIdle == \A t \in Threads : pc[t] = "idle"

\* the tables of the store as they stand
StoreTables ==
    [vms |-> vms, users |-> users, serviceAccounts |-> serviceAccounts, config |-> config]

\* one statement of the reset handler: from label `from` to label `to`
ResetStep(t, from, to) ==
    /\ ~crashed
    /\ pc[t] = from
    /\ pc' = [pc EXCEPT ![t] = to]
    /\ UNCHANGED <<req, resp, crashed>>
    /\ UNCHANGED histVars
    /\ UNCHANGED callVars

\* POST /mock/azure/data/reset arrives; the store it finds is kept in tac
ResetBegin(t) ==
    /\ ResetIdle
    /\ ResetStep(t, "idle", "reset_vms")
    /\ treq' = [treq EXCEPT ![t] = "reset"]
    /\ tac' = [tac EXCEPT ![t] = <<StoreTables>>]
    /\ UNCHANGED <<tresp, storeVars>>

\* store.vms = nil
ResetVMs(t) ==
    /\ ResetStep(t, "reset_vms", "reset_users")
    /\ vms' = <<>>
    /\ UNCHANGED <<users, serviceAccounts, config, clients, codes, treq, tac, tresp>>

\* store.users = nil
ResetUsers(t) ==
    /\ ResetStep(t, "reset_users", "init")
    /\ users' = <<>>
    /\ UNCHANGED <<vms, serviceAccounts, config, clients, codes, treq, tac, tresp>>

\* init: s.vms, s.users and s.serviceAccounts are set to empty lists
InitEmpty(t) ==
    /\ ResetStep(t, "init", "load_config")
    /\ vms' = <<>>
    /\ users' = <<>>
    /\ serviceAccounts' = <<>>
    /\ UNCHANGED <<config, clients, codes, treq, tac, tresp>>

\* loadConfig: s.config = &ServiceAccountConfig{ServiceAccounts: {}}
LoadEmptySecrets(t) ==
    /\ ResetStep(t, "load_config", "load_vms")
    /\ config' = <<>>
    /\ UNCHANGED <<vms, users, serviceAccounts, clients, codes, treq, tac, tresp>>

\* loadConfig: s.vms = fc.VMs
LoadVMs(t) ==
    /\ ResetStep(t, "load_vms", "load_users")
    /\ vms' = ConfigVMs
    /\ UNCHANGED <<users, serviceAccounts, config, clients, codes, treq, tac, tresp>>

\* loadConfig: s.users = fc.Users
LoadUsers(t) ==
    /\ ResetStep(t, "load_users", "load_accounts")
    /\ users' = ConfigUsers
    /\ UNCHANGED <<vms, serviceAccounts, config, clients, codes, treq, tac, tresp>>

\* loadConfig: one turn of the loop over fc.ServiceAccounts
LoadAccount(t) ==
    /\ Len(serviceAccounts) < Len(ConfigServiceAccounts)
    /\ ResetStep(t, "load_accounts", "load_accounts")
    /\ serviceAccounts' =
           Append(serviceAccounts,
                  StoreServiceAccount(ConfigServiceAccounts[Len(serviceAccounts) + 1]))
    /\ config' = Append(config, StoreSecret(ConfigServiceAccounts[Len(serviceAccounts) + 1]))
    /\ UNCHANGED <<vms, users, clients, codes, treq, tac, tresp>>

\* init: s.clients and s.codes are made anew, after the loop has ended
InitMaps(t) ==
    /\ Len(serviceAccounts) >= Len(ConfigServiceAccounts)
    /\ ResetStep(t, "load_accounts", "respond")
    /\ clients' = EmptyMap
    /\ codes' = EmptyMap
    /\ UNCHANGED <<vms, users, serviceAccounts, config, treq, tac, tresp>>

\* the reset answers
ResetRespond(t) ==
    /\ ResetStep(t, "respond", "idle")
    /\ tresp' = [tresp EXCEPT ![t] =
                    Response("reset", 200, "Mock data reset to defaults successfully")]
    /\ treq' = [treq EXCEPT ![t] = ""]
    /\ tac' = [tac EXCEPT ![t] = <<>>]
    /\ UNCHANGED storeVars

\* the requests that read the store
ReaderPaths == {"/s/0/virtualMachines", "/users"}

ReaderRequests == {RouteRequest("GET", path, EmptyMap, "") : path \in ReaderPaths}

ReaderCredentials == {<<"sp1", "s1">>, <<"sp1", "s2">>}

InitReset ==
    /\ StoreInit
    /\ req = NoRequest
    /\ resp = NoResponse
    /\ redeemed = {}
    /\ pending = {}
    /\ ThreadsIdle
    /\ call = [fn |-> "RegisterRoutes", routes |-> ARMRoutes \o <<UsersList, Keys>>]
    /\ ret = <<RegisterRoutes(ARMRoutes \o <<UsersList, Keys>>)>>

NextReset ==
    \/ \E t \in Threads : ResetBegin(t)
    \/ \E t \in Threads : ResetVMs(t)
    \/ \E t \in Threads : ResetUsers(t)
    \/ \E t \in Threads : InitEmpty(t)
    \/ \E t \in Threads : LoadEmptySecrets(t)
    \/ \E t \in Threads : LoadVMs(t)
    \/ \E t \in Threads : LoadUsers(t)
    \/ \E t \in Threads : LoadAccount(t)
    \/ \E t \in Threads : InitMaps(t)
    \/ \E t \in Threads : ResetRespond(t)
    \/ \E r \in ReaderRequests : Serve(r)
    \/ \E c \in ReaderCredentials :
           /\ TokenClientCredentials(c[1], c[2], "openid")
           /\ Record(TokenRequest("POST", FormType, TRUE, "client_credentials", "", c[1], c[2]))
    \/ ResetIdle /\ DataClear("POST") /\ Record(DataRequest("clear", "POST"))

SpecReset == InitReset /\ [][NextReset]_vars

(***************************************************************************)
(* The start, stop and restart cases of POST /mock/azure/vms/<name>/<op>   *)
(* statement by statement, one request per goroutine.  The handler takes   *)
(* no lock; vm is a pointer into store.vms, which no request of this       *)
(* specification makes longer or shorter.                                  *)
(***************************************************************************)
PowerOperations == {"start", "stop", "restart"}

PowerAuthHeaders == {"", "Basic " \o B64Encode("sp1:s1")}

PowerNames == {"vm-1", "vm-9"}

\* one statement of the handler: from label `from` to label `to`
PowerStep(t, from, to) ==
    /\ pc[t] = from
    /\ pc' = [pc EXCEPT ![t] = to]
    /\ UNCHANGED <<users, serviceAccounts, config, clients, codes, crashed>>
    /\ UNCHANGED histVars
    /\ UNCHANGED callVars

\* the request arrives: find(vmName), then checkPermission(vm, operation)
PowerBegin(t, auth, name, operation) ==
    LET sa == authenticateServiceAccount(serviceAccounts, config, auth)
        found == VMFind(name) IN
    /\ IF found = <<>>
       THEN /\ PowerStep(t, "idle", "idle")
            /\ tresp' = [tresp EXCEPT ![t] = VMResponse("vm", 404, "VM not found", <<>>)]
            /\ UNCHANGED <<treq, tac>>
       ELSE IF ~checkPermission(sa, vms[found[1]], operation)
       THEN /\ PowerStep(t, "idle", "idle")
            /\ tresp' = [tresp EXCEPT ![t] =
                            VMResponse("vm", 403, "Forbidden: insufficient permissions to "
                                                  \o operation \o " VM", <<>>)]
            /\ UNCHANGED <<treq, tac>>
       ELSE /\ PowerStep(t, "idle", "status")
            /\ treq' = [treq EXCEPT ![t] = VMRequest("POST", auth, <<name, operation>>)]
            /\ tac' = [tac EXCEPT ![t] = found]
            /\ UNCHANGED tresp
    /\ UNCHANGED <<vms, req, resp>>

\* vm.Status = "running" or "stopped"
PowerSetStatus(t) ==
    /\ PowerStep(t, "status", "power")
    /\ vms' = [vms EXCEPT ![tac[t][1]].Status = VMStatusOf(treq[t].parts[2])]
    /\ UNCHANGED <<req, resp, treq, tac, tresp>>

\* vm.PowerState = "VM running" or "VM deallocated"
PowerSetPowerState(t) ==
    /\ PowerStep(t, "power", "respond")
    /\ vms' = [vms EXCEPT ![tac[t][1]].PowerState = VMPowerStateOf(treq[t].parts[2])]
    /\ UNCHANGED <<req, resp, treq, tac, tresp>>

\* the success answer; req and resp keep the request answered last
PowerRespond(t) ==
    /\ PowerStep(t, "respond", "idle")
    /\ tresp' = [tresp EXCEPT ![t] = VMResponse("vm", 200, "success", <<>>)]
    /\ req' = treq[t]
    /\ resp' = VMResponse("vm", 200, "success", <<>>)
    /\ treq' = [treq EXCEPT ![t] = ""]
    /\ tac' = [tac EXCEPT ![t] = <<>>]
    /\ UNCHANGED vms

NextPower ==
    \/ \E t \in Threads, auth \in PowerAuthHeaders, name \in PowerNames,
          operation \in PowerOperations : PowerBegin(t, auth, name, operation)
    \/ \E t \in Threads : PowerSetStatus(t)
    \/ \E t \in Threads : PowerSetPowerState(t)
    \/ \E t \in Threads : PowerRespond(t)

SpecPower == Init /\ [][NextPower]_vars

(***************************************************************************)
(* Claims                                                                  *)
(***************************************************************************)

\* C1 (as stated): once a token request has redeemed code c, no later token
\* request presenting c is handed tokens (it is answered 400 "invalid code").
C1_RedeemedCodeNeverRedeemsAgain ==
    [][IsCodeGrant(resp') => GrantedCode(resp') \notin redeemed]_vars

\* C2 (as stated): of the token requests that present the same issued code
\* concurrently, at most one is handed tokens.
C2_ConcurrentRedemptionSucceedsOnce ==
    \A t \in Threads, u \in Threads :
        (t # u /\ treq[t] = treq[u] /\ IsCodeGrant(tresp[t])) => ~IsCodeGrant(tresp[u])

\* C3 (as stated): the token request that redeems the code handed to an
\* authorize request completed with user_id u returns an id_token whose sub is u
\* and whose email and name are those stored for the user with ID u.
C3_RoundTripSubject ==
    [][IsCodeGrant(resp') =>
        \A p \in pending :
            p[1] = GrantedCode(resp') =>
                LET claims == resp'.token[1].id_token[1].payload IN
                /\ claims.sub = p[2]
                /\ \A i \in 1..Len(users) :
                       users[i].ID = p[2] =>
                           /\ claims.email = users[i].UserPrincipalName
                           /\ claims.name = users[i].DisplayName]_vars

\* the request passes the authorize validation (presence, response type, and
\* the registered caller's redirect list)
PassesValidation(r) ==
    /\ r.client_id # ""
    /\ r.redirect_uri # ""
    /\ r.response_type = "code"
    /\ r.client_id \in DOMAIN clients =>
           LET list == clients[r.client_id].RedirectURIs IN
           Len(list) = 0 \/ \E i \in 1..Len(list) : list[i] = r.redirect_uri

\* C4 (as stated): an authorize request that passes validation and carries
\* user_id adds exactly one code, different from every code already in the
\* table, bound to the request, and changes no existing entry.
C4_AuthorizeAddsFreshCode ==
    [][(req'.op = "authorize" /\ PassesValidation(req') /\ req'.user_id # "") =>
        \E c \in (DOMAIN codes') \ (DOMAIN codes) :
            /\ DOMAIN codes' = (DOMAIN codes) \cup {c}
            /\ codes'[c].ClientID = req'.client_id
            /\ codes'[c].RedirectURI = req'.redirect_uri
            /\ codes'[c].Scope = req'.scope
            /\ codes'[c].UserSub = req'.user_id
            /\ \A k \in DOMAIN codes : codes'[k] = codes[k]]_vars

\* C5: an authorize request with an empty client_id, an empty redirect_uri or
\* a response_type other than "code" is answered 400; a valid one without
\* user_id is answered with the user-selection page; either way the code table
\* and the registered-caller table stay as they were.
C5_RefusedOrPromptedAuthorizeKeepsTables ==
    [][req'.op = "authorize" =>
        /\ (req'.client_id = "" \/ req'.redirect_uri = "" \/ req'.response_type # "code")
              => (resp'.status = 400 /\ codes' = codes /\ clients' = clients)
        /\ (PassesValidation(req') /\ req'.user_id = "")
              => /\ resp' = Response("authorize", 200, "user selection page")
                 /\ codes' = codes
                 /\ clients' = clients]_vars

C5_Witness ==
    /\ req.op = "authorize"
    /\ req.user_id = ""
    /\ resp.status = 200
    /\ req.client_id \in DOMAIN clients
    /\ DOMAIN codes # {}

C7_UnsupportedGrantRefused ==
    [][(req'.op = "token"
        /\ req'.grant_type \notin {"authorization_code", "client_credentials"}) =>
        /\ resp'.status \in 400..499
        /\ resp'.token = <<>>
        /\ codes' = codes]_vars

\* C8: a form-encoded POST to the token endpoint with
\* grant_type=client_credentials returns 200 with access_token
\* "mock_access_token_" + client_id iff (client_id, client_secret) is the
\* applicationId and secret of one credential record, and 401 otherwise; it
\* never carries an id_token or a refresh_token and leaves the code table as it was.
C8_ClientCredentialsGrant ==
    [][(req'.op = "token" /\ req'.method = "POST" /\ req'.content_type = FormType
        /\ req'.parses /\ req'.grant_type = "client_credentials") =>
        LET known == \E i \in 1..Len(config) :
                         /\ config[i].ApplicationID = req'.client_id
                         /\ config[i].Secret = req'.client_secret
        IN
        /\ known => /\ resp'.status = 200
                    /\ Len(resp'.token) = 1
                    /\ resp'.token[1].access_token = "mock_access_token_" \o req'.client_id
                    /\ resp'.token[1].id_token = <<>>
                    /\ resp'.token[1].refresh_token = <<>>
        /\ ~known => (resp'.status = 401 /\ resp'.token = <<>>)
        /\ codes' = codes]_vars

C8_Witness ==
    /\ req.op = "token"
    /\ req.grant_type = "client_credentials"
    /\ req.client_id = "sp1"
    /\ resp.status = 200
    /\ DOMAIN codes # {}

\* C9: hasPermission(scope, verb) is true iff some permission entry of the
\* principal has a resource group equal to scope or "*" and lists verb or "*";
\* a principal without entries is denied everything.
C9_HasPermissionIffEntryGrants ==
    call.fn = "hasPermission" =>
        LET perms == serviceAccounts[call.sa].Permissions
            granted ==
                \E i \in 1..Len(perms) :
                    /\ perms[i].ResourceGroup \in {call.resourceGroup, "*"}
                    /\ \E j \in 1..Len(perms[i].Permissions) :
                           perms[i].Permissions[j] \in {call.permission, "*"}
        IN /\ ret = <<granted>>
           /\ Len(perms) = 0 => ret = <<FALSE>>

C9_Witness ==
    /\ call.fn = "hasPermission"
    /\ ret = <<TRUE>>
    /\ call.resourceGroup = "rg-other"
    /\ call.permission = "delete"
    /\ Len(serviceAccounts[call.sa].Permissions) = 2
    /\ serviceAccounts[call.sa].Permissions[1].ResourceGroup = "rg-other"
    /\ serviceAccounts[call.sa].Permissions[1].Permissions = <<"read">>

\* C10 (as stated): authenticate returns principal P exactly when the header
\* is Basic with a decoded applicationId:secret pair equal to P's credential
\* record, or Bearer with the token mock_access_token_<P's applicationId>;
\* every other header returns no principal.
C10_AuthenticateExactly ==
    call.fn = "authenticateServiceAccount" =>
        \A i \in 1..Len(serviceAccounts) :
            ret = <<i>> <=>
                \/ call.auth = "Basic " \o B64Encode(config[i].ApplicationID \o ":"
                                                     \o config[i].Secret)
                \/ call.auth = "Bearer mock_access_token_" \o serviceAccounts[i].ApplicationID

\* C11: authenticateServiceAccount never returns a service principal whose
\* configuration entry says accountEnabled: false, whether the credential
\* is Basic or Bearer.
C11_DisabledPrincipalNeverReturned ==
    (call.fn = "authenticateServiceAccount" /\ ret # <<>>) =>
        \A k \in 1..Len(call.file) :
            call.file[k].ApplicationID = serviceAccounts[ret[1]].ApplicationID
                => call.file[k].AccountEnabled

\* some permission entry of the account covers the resource group and the verb
EntryGrants(sa, resourceGroup, verb) ==
    \E i \in 1..Len(sa.Permissions) :
        /\ sa.Permissions[i].ResourceGroup \in {resourceGroup, "*"}
        /\ \E j \in 1..Len(sa.Permissions[i].Permissions) :
               sa.Permissions[i].Permissions[j] \in {verb, "*"}

\* the request asks for start, stop or restart of a VM of the store, in the
\* name of a service principal whose permissions do not grant the verb on the
\* resource group of that VM
IsDeniedPowerRequest(r) ==
    /\ r.op = "vm"
    /\ r.method = "POST"
    /\ Len(r.parts) = 2
    /\ r.parts[2] \in {"start", "stop", "restart"}
    /\ VMFind(r.parts[1]) # <<>>
    /\ authenticateServiceAccount(serviceAccounts, config, r.auth) # <<>>
    /\ ~EntryGrants(
           serviceAccounts[authenticateServiceAccount(serviceAccounts, config, r.auth)[1]],
           vms[VMFind(r.parts[1])[1]].ResourceGroup, r.parts[2])

\* C12: a start, stop or restart request of an authenticated service
\* principal on an existing VM whose resource group does not grant it that
\* verb is answered 403, and no VM changes its status or power state.
C12_DeniedOperationKeepsVM ==
    [][IsDeniedPowerRequest(req') => (resp'.status = 403 /\ vms' = vms)]_vars

\* sp1 may read and start in rg-dev; its stop request on the running vm-1 was
\* refused and vm-1 is still running
C12_Witness ==
    /\ req.op = "vm"
    /\ req.method = "POST"
    /\ req.parts = <<"vm-1", "stop">>
    /\ req.auth = "Basic " \o B64Encode("sp1:s1")
    /\ resp.status = 403
    /\ Len(vms) >= 1
    /\ vms[1].Name = "vm-1"
    /\ vms[1].Status = "running"

\* C13: a VM list request without a credential, or with one that fails
\* authentication, is answered 200 with every VM of the store; the answer
\* is therefore the same in both cases.
C13_AnonymousListReturnsEveryVM ==
    (/\ req.op = "vms"
     /\ req.method = "GET"
     /\ authenticateServiceAccount(serviceAccounts, config, req.auth) = <<>>)
        => (resp.status = 200 /\ resp.value = vms)

\* a wrong secret was presented and both VMs of the store were listed
C13_Witness ==
    /\ req.op = "vms"
    /\ req.method = "GET"
    /\ req.auth = "Basic " \o B64Encode("sp1:s2")
    /\ resp.status = 200
    /\ Len(resp.value) = 2
    /\ resp.value = vms

\* the slash-delimited segments of s
RECURSIVE SegmentsFrom(_, _, _)
SegmentsFrom(s, i, cur) ==
    IF i > Len(s) THEN <<cur>>
    ELSE IF SubSeq(s, i, i) = "/" THEN <<cur>> \o SegmentsFrom(s, i + 1, "")
    ELSE SegmentsFrom(s, i + 1, cur \o SubSeq(s, i, i))

Segments(s) == SegmentsFrom(s, 1, "")

IsPlaceholder(segment) ==
    /\ Len(segment) >= 3
    /\ SubSeq(segment, 1, 1) = "{"
    /\ SubSeq(segment, Len(segment), Len(segment)) = "}"

PlaceholderName(segment) == SubSeq(segment, 2, Len(segment) - 1)

\* equal segment counts, and every literal segment equals its counterpart
SegmentsAgree(pattern, path) ==
    /\ Len(Segments(pattern)) = Len(Segments(path))
    /\ \A i \in 1..Len(Segments(pattern)) :
           ~IsPlaceholder(Segments(pattern)[i]) => Segments(pattern)[i] = Segments(path)[i]

\* C17: MatchPath(pattern, path) succeeds iff pattern and path have the same
\* number of segments and every literal segment of the pattern equals the
\* path segment at its position; on success the parameters bind exactly the
\* placeholder names, each to the path segment at its position.
C17_MatchPathBySegments ==
    call.fn = "MatchPath" =>
        /\ ret[1].matched <=> SegmentsAgree(call.pattern, call.requestPath)
        /\ ret[1].matched =>
               /\ DOMAIN ret[1].params =
                      {PlaceholderName(Segments(call.pattern)[i]) :
                          i \in {j \in 1..Len(Segments(call.pattern)) :
                                     IsPlaceholder(Segments(call.pattern)[j])}}
               /\ \A i \in 1..Len(Segments(call.pattern)) :
                      IsPlaceholder(Segments(call.pattern)[i]) =>
                          ret[1].params[PlaceholderName(Segments(call.pattern)[i])]
                              = Segments(call.requestPath)[i]

\* the documents of the registry, of the route's API type, that declare the
\* route's path and method
DeclaringDocuments(registry, r) ==
    {i \in 1..Len(registry) :
        /\ registry[i].Type = r.APIType
        /\ <<r.Path, r.Method>> \in DeclaredOperations(registry[i])}

\* no document that declares the operation gives it an operation id
IdOmitted(registry, r) ==
    \A i \in DeclaringDocuments(registry, r) : registry[i].Paths[r.Path][r.Method] = ""

\* C18: route compilation emits exactly one route for every (document, path,
\* declared method); an operation without a declared id gets an id, and two
\* such operations that differ in method or path never get the same id,
\* whatever the format of their documents.
C18_OneRoutePerOperationDistinctIds ==
    (call.fn = "GenerateRoutes" /\ ret # <<>>) =>
        LET routes == ret[1] IN
        /\ \A i \in 1..Len(call.registry) :
               \A o \in DeclaredOperations(call.registry[i]) :
                   Cardinality({k \in 1..Len(routes) :
                                   /\ routes[k].APIType = call.registry[i].Type
                                   /\ routes[k].Path = o[1]
                                   /\ routes[k].Method = o[2]})
                     = Cardinality(DeclaringDocuments(call.registry,
                                       Route(o[2], o[1], "", call.registry[i].Type)))
        /\ \A k \in 1..Len(routes) : DeclaringDocuments(call.registry, routes[k]) # {}
        /\ \A k \in 1..Len(routes) :
               IdOmitted(call.registry, routes[k]) => routes[k].OperationID # ""
        /\ \A k, l \in 1..Len(routes) :
               (/\ IdOmitted(call.registry, routes[k])
                /\ IdOmitted(call.registry, routes[l])
                /\ <<routes[k].Method, routes[k].Path>> # <<routes[l].Method, routes[l].Path>>)
                   => routes[k].OperationID # routes[l].OperationID

\* the routes of the table the server was started with that declare the
\* method of the request and whose pattern agrees with its path, segment by
\* segment
ResolvedRoutes(r) ==
    {i \in 1..Len(call.routes) :
        /\ call.routes[i].Method = r.method
        /\ SegmentsAgree(call.routes[i].Path, r.path)}

\* the path segment at the position of the placeholder {name}, or ""
SegmentParam(pattern, path, name) ==
    LET At == {i \in 1..Len(Segments(pattern)) :
                  Segments(pattern)[i] = "{" \o name \o "}"}
    IN IF At = {} THEN "" ELSE Segments(path)[CHOOSE i \in At : TRUE]

\* a GET of a resource-management or directory route that names a resource
\* group, sent with the credentials of a service principal whose permissions
\* do not grant read on that group
IsUnpermittedRead(r) ==
    /\ r.op = "route"
    /\ r.method = "GET"
    /\ authenticateServiceAccount(serviceAccounts, config, r.auth) # <<>>
    /\ \E i \in ResolvedRoutes(r) :
           /\ call.routes[i].APIType \in {"arm", "graph"}
           /\ SegmentParam(call.routes[i].Path, r.path, "resourceGroupName") # ""
           /\ ~EntryGrants(
                  serviceAccounts[authenticateServiceAccount(serviceAccounts, config,
                                                             r.auth)[1]],
                  SegmentParam(call.routes[i].Path, r.path, "resourceGroupName"), "read")

\* C14: a resource-management or directory request of an authenticated
\* service principal that is not permitted for the resource group and verb
\* of the request is answered 403, and the response mapper does not run for
\* it.
C14_GateBeforeMapper ==
    IsUnpermittedRead(req) => (resp.status = 403 /\ ~resp.mapped)

\* C15: a request whose path agrees with the pattern of some registered
\* route, while no route that agrees with the path declares the method of
\* the request, is answered 405.
C15_MethodNotAllowed ==
    (/\ req.op = "route"
     /\ \E i \in 1..Len(call.routes) : SegmentsAgree(call.routes[i].Path, req.path)
     /\ ResolvedRoutes(req) = {})
        => resp.status = 405

\* C16: when an exact-path route and a parameterized route both agree with
\* the path of a request, the response comes from the handler of the
\* exact-path route: an exact-path route that declares the method of the
\* request handles it, and no parameterized route does, wherever the routes
\* stand in the table.
C16_ExactRouteOutranks ==
    (/\ req.op = "route"
     /\ \E i, j \in 1..Len(call.routes) :
            /\ ~IsParameterized(call.routes[i])
            /\ IsParameterized(call.routes[j])
            /\ SegmentsAgree(call.routes[i].Path, req.path)
            /\ SegmentsAgree(call.routes[j].Path, req.path))
        => /\ \A i \in ResolvedRoutes(req) :
                  ~IsParameterized(call.routes[i]) => resp.route = <<call.routes[i]>>
           /\ resp.route # <<>> => ~IsParameterized(resp.route[1])

\* the parameterized route for the same path stands first in the table, and
\* the exact-path route has answered
C16_Witness ==
    /\ req.op = "route"
    /\ req.method = "GET"
    /\ req.path = "/users/delta"
    /\ call.routes[1] = UsersGet
    /\ SegmentsAgree(UsersGet.Path, req.path)
    /\ resp.status = 200
    /\ resp.route = <<UsersDelta>>

\* a GET that a compute-instance detail route resolves, for a VM name that
\* no VM of the store has
IsUnknownVMDetail(r) ==
    /\ r.op = "route"
    /\ r.method = "GET"
    /\ \E i \in ResolvedRoutes(r) :
           /\ call.routes[i].OperationID = "VirtualMachines_Get"
           /\ \A k \in 1..Len(vms) :
                  vms[k].Name # SegmentParam(call.routes[i].Path, r.path, "vmName")

\* the message ends in "not found: <name>"
EndsInNotFound(message, name) == HasSuffix(message, "not found: " \o name)

\* C19: a GET of compute-instance detail for a VM name that no stored VM has
\* is answered 404 with the error code ResourceNotFound and a message that
\* ends in "not found: <name>", whatever resource group the path names.
C19_UnknownVMDetailIs404 ==
    IsUnknownVMDetail(req) =>
        /\ resp.status = 404
        /\ resp.payload.kind = "error"
        /\ resp.payload.value[1].code = "ResourceNotFound"
        /\ \A i \in ResolvedRoutes(req) :
               EndsInNotFound(resp.payload.value[1].message,
                              SegmentParam(call.routes[i].Path, req.path, "vmName"))

ListOperations ==
    {"ResourceGroups_List", "VirtualMachines_ListAll", "VirtualMachines_List", "user_ListUser"}

\* the number of items of the store that the list route asks for
ListedItems(route, r) ==
    IF route.OperationID = "ResourceGroups_List" THEN Len(ConfigResourceGroups)
    ELSE IF route.OperationID = "user_ListUser" THEN Len(users)
    ELSE IF route.OperationID = "VirtualMachines_List"
    THEN Cardinality({k \in 1..Len(vms) :
                         vms[k].ResourceGroup
                             = SegmentParam(route.Path, r.path, "resourceGroupName")})
    ELSE Cardinality({k \in 1..Len(vms) :
                         Param(r.query, "resourceGroupName") \in {"", vms[k].ResourceGroup}})

\* C20: a list request that matches no item is answered 200 with an empty
\* array as its value, also after the data-clear and data-reset endpoints
\* have run.
C20_EmptyListIsEmptyArray ==
    (req.op = "route" /\ req.method = "GET") =>
        \A i \in ResolvedRoutes(req) :
            (/\ call.routes[i].OperationID \in ListOperations
             /\ ListedItems(call.routes[i], req) = 0)
                => (resp.status = 200 /\ resp.payload = ListPayload(<<>>))

\* the key of a directory get-by-key request: the segment of the path at
\* the placeholder {user-id}
IsUserGet(r) ==
    /\ r.op = "route"
    /\ r.method = "GET"
    /\ SegmentsAgree(UsersGet.Path, r.path)
    /\ UsersGet \in {call.routes[i] : i \in 1..Len(call.routes)}

UserKey(r) == SegmentParam(UsersGet.Path, r.path, "user-id")

\* C21: a directory get-by-key request with key k returns the user whose id
\* is k when there is one, otherwise the user whose principal name is k,
\* and when there is neither it is answered 404 with the code ItemNotFound.
C21_UserByIdThenByName ==
    IsUserGet(req) =>
        LET ById == {i \in 1..Len(users) : users[i].ID = UserKey(req)}
            ByName == {i \in 1..Len(users) : users[i].UserPrincipalName = UserKey(req)}
        IN /\ ById # {} =>
                  /\ resp.status = 200
                  /\ \E i \in ById : resp.payload = ObjectPayload(
                                         convertUserToGraphFormat(GetUsers[i]))
           /\ (ById = {} /\ ByName # {}) =>
                  /\ resp.status = 200
                  /\ \E i \in ByName : resp.payload = ObjectPayload(
                                           convertUserToGraphFormat(GetUsers[i]))
           /\ (ById = {} /\ ByName = {}) =>
                  /\ resp.status = 404
                  /\ resp.payload.kind = "error"
                  /\ resp.payload.value[1].code = "ItemNotFound"

\* the item is the payload of a compute instance
IsVMPayload(item) ==
    "type" \in DOMAIN item /\ item.type = "Microsoft.Compute/virtualMachines"

\* C22: a compute-instance payload holds the instanceView block if and only
\* if the query of the request is $expand=instanceView.
C22_InstanceViewIffExpand ==
    (req.op = "route" /\ req.method = "GET" /\ resp.status = 200) =>
        \A k \in 1..Len(resp.payload.value) :
            IsVMPayload(resp.payload.value[k]) =>
                (("instanceView" \in DOMAIN resp.payload.value[k])
                    <=> Param(req.query, "$expand") = "instanceView")

\* C26: RegisterRoutes registers no mux pattern twice, whatever route set
\* compilation has produced.
C26_NoPatternRegisteredTwice ==
    call.fn = "RegisterRoutes" =>
        \A i, j \in 1..Len(ret[1]) : i # j => ret[1][i].Pattern # ret[1][j].Pattern

\* C27: a request whose method is the method of a compiled route that
\* MatchPath matches with its path is delivered to the handler of a route;
\* the mux does not answer it 404.
C27_DispatchComplete ==
    (/\ req.op = "route"
     /\ \E i \in 1..Len(call.routes) :
            /\ call.routes[i].Method = req.method
            /\ MatchPath(call.routes[i].Path, req.path).matched)
        => resp.route # <<>>

\* the two tables hold the same routes
SameRoutes(t, u) ==
    /\ Len(t) = Len(u)
    /\ {t[i] : i \in 1..Len(t)} = {u[i] : i \in 1..Len(u)}

\* C28: the route that answers a request is the same for every order in
\* which the routes of the loaded documents can be compiled.
C28_ResolutionIndependentOfOrder ==
    req.op = "route" =>
        \A other \in RouteTables :
            (SameRoutes(other, call.routes) /\ ~RegistrationPanics(RegisterRoutes(other)))
                => ServeHTTP(RegisterRoutes(other), req.method, req.path, req.query).route
                       = resp.route

\* C29: for every placeholder of the route the mapper receives the segment
\* of the request path, whatever the query holds, and a list route answers
\* with a list.
C29_PathParametersKept ==
    (req.op = "route" /\ resp.mapped) =>
        /\ \A k \in 1..Len(ParamNames(resp.route[1].Path)) :
               Param(resp.params, ParamNames(resp.route[1].Path)[k])
                   = SegmentParam(resp.route[1].Path, req.path,
                                  ParamNames(resp.route[1].Path)[k])
        /\ (/\ resp.status = 200
            /\ resp.route[1].OperationID
                   \in {"ResourceGroups_List", "VirtualMachines_ListAll", "user_ListUser"})
               => resp.payload.kind = "list"

\* C25: an authorize request answered with a 4xx status leaves the code
\* table as it was; a code is added only by the request answered 302.
C25_RefusedAuthorizeAddsNoCode ==
    [][(req'.op = "authorize" /\ resp'.status \in 400..499) => codes' = codes]_vars

\* C24: a code of the code table keeps its place and its binding through
\* every request except the token request that redeems it with success.
C24_CodeStaysUntilRedeemed ==
    [][\A c \in DOMAIN codes :
          (c \notin DOMAIN codes' \/ codes'[c] # codes[c])
              => (req'.op = "token" /\ resp'.status = 200 /\ req'.code = c)]_vars

\* a reset is between its first and its last statement
ResetInProgress == \E t \in Threads : pc[t] # "idle"

\* the store the reset in progress found when it began
PreReset == tac[CHOOSE t \in Threads : pc[t] # "idle"][1]

\* the step is a request that reads the store
IsReaderStep == pc' = pc /\ req'.op \in {"route", "token"}

\* C23: a request served while a reset is in progress sees the tables as
\* they were before the reset or as they are after it: a list has as many
\* items as the table had before or has in the configuration file, and
\* credentials that are valid before and after the reset are accepted.
C23_ResetIsAtomicForReaders ==
    [][(ResetInProgress /\ IsReaderStep) =>
          /\ (req'.op = "route" /\ req'.path = "/s/0/virtualMachines") =>
                 /\ resp'.status = 200
                 /\ Len(resp'.payload.value) \in {Len(PreReset.vms), Len(ConfigVMs)}
          /\ (req'.op = "route" /\ req'.path = "/users") =>
                 /\ resp'.status = 200
                 /\ Len(resp'.payload.value) \in {Len(PreReset.users), Len(ConfigUsers)}
          /\ (/\ req'.op = "token"
              /\ ClientAuthenticated(PreReset.config, req'.client_id, req'.client_secret)
              /\ ClientAuthenticated(LoadSecrets(ConfigServiceAccounts), req'.client_id,
                                     req'.client_secret))
                 => resp'.status = 200]_vars

\* status and power state of a VM agree
PowerAgrees(vm) ==
    \/ vm.Status = "running" /\ vm.PowerState = "VM running"
    \/ vm.Status = "stopped" /\ vm.PowerState = "VM deallocated"

\* a request served alone: a successful start, stop or restart leaves the
\* VM with the pair of that operation
LastOperationDecides ==
    [][(/\ req'.op = "vm"
        /\ req'.method = "POST"
        /\ Len(req'.parts) > 1
        /\ req'.parts[2] \in PowerOperations
        /\ resp'.status = 200)
           => LET vm == vms'[VMFind(req'.parts[1])[1]] IN
              /\ vm.Status = VMStatusOf(req'.parts[2])
              /\ vm.PowerState = VMPowerStateOf(req'.parts[2])]_vars

\* C30: once the start, stop and restart requests of all callers have been
\* answered, in whatever way their statements interleaved, the status and
\* the power state of every VM agree.
C30_StatusAndPowerStateAgree ==
    ResetIdle => \A i \in 1..Len(vms) : PowerAgrees(vms[i])

=============================================================================
